---- MODULE Spec2Model ----
(***************************************************************************)
(* The advising chatbot of aKrishnan0817/uchicago_ai_advisor               *)
(* (src/chatbot.py, src/app.py).                                           *)
(*                                                                         *)
(* A Python str is a sequence of one-character strings, so that lower(),   *)
(* split(), `in` and the regular expressions are computed character by     *)
(* character.  The fixed text of an f-string or literal that the program   *)
(* only ever writes out (a heading, a label) is kept as one element of the *)
(* sequence.  A Python dict is the sequence of its items in insertion      *)
(* order; a Python set is a set.                                           *)
(***************************************************************************)
EXTENDS Integers, Sequences, FiniteSets, TLC

VARIABLES
    programs,          \* Chatbot.programs: items of programs.json, in file order
    courses,           \* Chatbot.courses: items of courses.json, in file order
    program_keywords,  \* Chatbot._program_keywords: items slug -> set of keywords
    hash_seed,         \* the str hash seed of the process, as the order in which it
                       \* makes a set of course codes iterate
    op,                \* the operation whose result is held ("idle": none)
    args,              \* its arguments
    ret,               \* what it returned
    locals,            \* locals of that call that the statements refer to
    threads            \* the /chat requests the server is handling, one per worker
                       \* thread: where the handler stands and what it holds

vars == <<programs, courses, program_keywords, hash_seed, op, args, ret, locals, threads>>

catalog == <<programs, courses, program_keywords>>

(***************************************************************************)
(* Characters and str methods                                              *)
(***************************************************************************)
\* U+00A0, the non-breaking space
NBSP == "nbsp"

UpperSeq == <<"A","B","C","D","E","F","G","H","I","J","K","L","M","N","O","P","Q","R","S","T","U","V","W","X","Y","Z">>

LowerSeq == <<"a","b","c","d","e","f","g","h","i","j","k","l","m","n","o","p","q","r","s","t","u","v","w","x","y","z">>

DigitSeq == <<"0","1","2","3","4","5","6","7","8","9">>

\* the characters of the model in code point order (Python compares str by code point)
CodePoints ==
    <<"\n", " ", "\"", "'", "(", ")", ",", "-", ".", "/">> \o DigitSeq
        \o <<":", ";", "?">> \o UpperSeq \o <<"_">> \o LowerSeq \o <<NBSP>>

ToSet(seq) == {seq[i] : i \in DOMAIN seq}

UpperSet == ToSet(UpperSeq)

LowerSet == ToSet(LowerSeq)

DigitSet == ToSet(DigitSeq)

IndexIn(seq, c) == CHOOSE i \in DOMAIN seq : seq[i] = c

\* ord(c), up to an order-preserving renumbering
OrdTable == [c \in ToSet(CodePoints) |-> IndexIn(CodePoints, c)]

Ord(c) == OrdTable[c]

LowerTable == [c \in UpperSet |-> LowerSeq[IndexIn(UpperSeq, c)]]

UpperTable == [c \in LowerSet |-> UpperSeq[IndexIn(LowerSeq, c)]]

\* [a-zA-Z]
IsAlpha(c) == c \in UpperSet \/ c \in LowerSet

\* \d
IsDigit(c) == c \in DigitSet

\* \s, and the whitespace of str.split() and str.strip()
IsSpace(c) == c \in {" ", "\n", NBSP}

\* \w
IsWordChar(c) == IsAlpha(c) \/ IsDigit(c) \/ c = "_"

\* str.lower()
lower(s) == [i \in DOMAIN s |-> IF s[i] \in UpperSet THEN LowerTable[s[i]] ELSE s[i]]

\* str.upper()
upper(s) == [i \in DOMAIN s |-> IF s[i] \in LowerSet THEN UpperTable[s[i]] ELSE s[i]]

RECURSIVE SplitFrom(_, _, _, _)
SplitFrom(s, i, cur, acc) ==
    IF i > Len(s)
    THEN IF cur = <<>> THEN acc ELSE Append(acc, cur)
    ELSE IF IsSpace(s[i])
         THEN SplitFrom(s, i + 1, <<>>, IF cur = <<>> THEN acc ELSE Append(acc, cur))
         ELSE SplitFrom(s, i + 1, Append(cur, s[i]), acc)

\* str.split() with no argument: the maximal runs of non-whitespace, in order
split(s) == SplitFrom(s, 1, <<>>, <<>>)

\* sub == s[i:i+len(sub)] (i counted from 0)
MatchesAt(sub, s, i) ==
    /\ i + Len(sub) <= Len(s)
    /\ \A k \in 1..Len(sub) : s[i + k] = sub[k]

\* the Python test `sub in s` on two str
In(sub, s) == \E i \in 0..(Len(s) - Len(sub)) : MatchesAt(sub, s, i)

\* s[:n]
Take(s, n) == SubSeq(s, 1, IF Len(s) < n THEN Len(s) ELSE n)

\* s[-n:]
LastN(s, n) == SubSeq(s, (IF Len(s) < n THEN 0 ELSE Len(s) - n) + 1, Len(s))

\* s[i:] (i counted from 0)
From(s, i) == SubSeq(s, i + 1, Len(s))

RECURSIVE Join(_, _)
\* sep.join(parts)
Join(sep, parts) ==
    IF parts = <<>> THEN <<>>
    ELSE IF Len(parts) = 1 THEN parts[1]
    ELSE parts[1] \o sep \o Join(sep, Tail(parts))

RECURSIVE Concat(_)
\* "".join(parts)
Concat(parts) == IF parts = <<>> THEN <<>> ELSE parts[1] \o Concat(Tail(parts))

\* a < b on two str: the first differing character decides, a proper prefix is smaller
StrLess(a, b) ==
    \E k \in 1..(Len(b)) :
        /\ \A j \in 1..(k - 1) : j <= Len(a) /\ a[j] = b[j]
        /\ \/ k = Len(a) + 1
           \/ k <= Len(a) /\ Ord(a[k]) < Ord(b[k])

RECURSIVE SortedSeq(_)
\* sorted(S) of a set of str
SortedSeq(S) ==
    IF S = {} THEN <<>>
    ELSE LET m == CHOOSE x \in S : \A y \in S \ {x} : StrLess(x, y)
         IN  <<m>> \o SortedSeq(S \ {m})

\* list.sort() / sorted() of a list of str (stable insertion by code point order)
RECURSIVE SortedList(_)
SortedList(l) ==
    IF l = <<>> THEN <<>>
    ELSE LET rest == SortedList(SubSeq(l, 1, Len(l) - 1))
             x    == l[Len(l)]
             n    == Cardinality({i \in DOMAIN rest : ~StrLess(x, rest[i])})
         IN  SubSeq(rest, 1, n) \o <<x>> \o SubSeq(rest, n + 1, Len(rest))

(***************************************************************************)
(* Catalog files (data/programs.json, data/courses.json)                   *)
(***************************************************************************)
\* os.path.exists(path) is false
MissingFile == "missing"

CourseRef(code, title, units) ==
    [code |-> code, title |-> title, units |-> units,
     or_alternative |-> FALSE, elective_option |-> FALSE]

Section(header, refs) == [header |-> header, courses |-> refs]

Program(slug, name, description, requirements) ==
    [slug |-> slug, name |-> name, description |-> description,
     requirements |-> requirements]

Course(code, name, units, description, details) ==
    [code |-> code, name |-> name, units |-> units, description |-> description,
     details |-> details]

Details(prerequisites, terms_offered, instructors) ==
    [prerequisites |-> prerequisites, terms_offered |-> terms_offered,
     instructors |-> instructors]

Ref_MATH20250 == CourseRef(<<"M","A","T","H",NBSP,"2","0","2","5","0">>, <<"A","b","s","t","r","a","c","t"," ","L","i","n","e","a","r"," ","A","l","g","e","b","r","a">>, <<"1","0","0">>)

Ref_MATH15300 == CourseRef(<<"M","A","T","H"," ","1","5","3","0","0">>, <<"C","a","l","c","u","l","u","s"," ","I","I","I">>, <<"1","0","0">>)

Ref_ECON20000 == CourseRef(<<"E","C","O","N"," ","2","0","0","0","0">>, <<"E","l","e","m","e","n","t","s"," ","o","f"," ","E","c","o","n","o","m","i","c"," ","A","n","a","l","y","s","i","s"," ","I">>, <<"1","0","0">>)

Ref_STAT24400 == CourseRef(<<"S","T","A","T"," ","2","4","4","0","0"," ">>, <<"S","t","a","t","i","s","t","i","c","a","l"," ","T","h","e","o","r","y"," ","I">>, <<"1","0","0">>)

Ref_CMSC14300 == CourseRef(<<"C","M","S","C"," ","1","4","3","0","0">>, <<"S","y","s","t","e","m","s"," ","P","r","o","g","r","a","m","m","i","n","g"," ","I">>, <<"1","0","0">>)

P_mathematics ==
    Program(<<"m","a","t","h","e","m","a","t","i","c","s">>, <<"M","a","t","h","e","m","a","t","i","c","s">>, <<"T","h","e"," ","s","t","u","d","y"," ","o","f"," ","s","t","r","u","c","t","u","r","e",".">>,
            <<Section(<<"C","o","r","e">>, <<Ref_MATH20250>>)>>)

P_economics ==
    Program(<<"e","c","o","n","o","m","i","c","s">>, <<"E","c","o","n","o","m","i","c","s">>, <<"A","n","a","l","y","s","i","s"," ","o","f"," ","m","a","r","k","e","t","s",".">>,
            <<Section(<<>>, <<Ref_ECON20000, Ref_MATH20250>>),
              Section(<<"E","l","e","c","t","i","v","e","s">>, <<Ref_STAT24400>>)>>)

P_visualarts ==
    Program(<<"v","i","s","u","a","l","a","r","t","s">>, <<"V","i","s","u","a","l"," ","A","r","t","s">>, <<>>, <<>>)

P_computerscience ==
    Program(<<"c","o","m","p","u","t","e","r","s","c","i","e","n","c","e">>, <<"C","o","m","p","u","t","e","r"," ","S","c","i","e","n","c","e">>, <<"C","o","m","p","u","t","a","t","i","o","n",".">>,
            <<Section(<<"I","n","t","r","o">>, <<Ref_CMSC14300, Ref_MATH15300>>)>>)

P_maths ==
    Program(<<"m","a","t","h","s">>, <<"M","a","t","h","e","m","a","t","i","c","s">>, <<"T","h","e"," ","s","t","u","d","y"," ","o","f"," ","s","t","r","u","c","t","u","r","e",","," ","B",".","S",".">>,
            <<Section(<<>>, <<Ref_MATH20250>>)>>)

\* programs.json with two programs of one name
TwinPrograms == <<P_mathematics, P_maths>>

\* programs.json of a --test scrape, cut to three programs
SmallPrograms == <<P_visualarts, P_mathematics, P_economics>>

\* programs.json with more than eight programs that share a keyword
BigPrograms ==
    <<P_mathematics, P_computerscience,
      Program(<<"d","a","t","a","s","c","i","e","n","c","e">>, <<"D","a","t","a"," ","S","c","i","e","n","c","e">>, <<>>, <<>>),
      Program(<<"e","n","v","i","r","o","n","m","e","n","t","a","l","s","c","i","e","n","c","e">>, <<"E","n","v","i","r","o","n","m","e","n","t","a","l"," ","S","c","i","e","n","c","e">>, <<>>, <<>>),
      Program(<<"p","o","l","i","t","i","c","a","l","s","c","i","e","n","c","e">>, <<"P","o","l","i","t","i","c","a","l"," ","S","c","i","e","n","c","e">>, <<>>, <<>>),
      Program(<<"c","o","g","n","i","t","i","v","e","s","c","i","e","n","c","e">>, <<"C","o","g","n","i","t","i","v","e"," ","S","c","i","e","n","c","e">>, <<>>, <<>>),
      Program(<<"b","i","o","l","o","g","i","c","a","l","s","c","i","e","n","c","e","s">>, <<"B","i","o","l","o","g","i","c","a","l"," ","S","c","i","e","n","c","e","s">>, <<>>, <<>>),
      Program(<<"g","e","o","p","h","y","s","i","c","a","l","s","c","i","e","n","c","e","s">>, <<"G","e","o","p","h","y","s","i","c","a","l"," ","S","c","i","e","n","c","e","s">>, <<>>, <<>>),
      Program(<<"s","c","i","e","n","c","e","a","n","d","m","e","d","i","c","i","n","e","h","i","p","s">>,
              <<"H","i","s","t","o","r","y",","," ","P","h","i","l","o","s","o","p","h","y",","," ","a","n","d"," ","S","o","c","i","a","l"," ","S","t","u","d","i","e","s"," ","o","f"," ","S","c","i","e","n","c","e"," ","a","n","d"," ","M","e","d","i","c","i","n","e">>,
              <<>>, <<>>),
      P_economics, P_visualarts>>

(***************************************************************************)
(* Chatbot._load_data                                                      *)
(***************************************************************************)
\* the curated abbreviations of _load_data, keyed by slug
abbrevs(slug) ==
    CASE slug = <<"c","o","m","p","u","t","e","r","s","c","i","e","n","c","e">> -> {<<"c","s">>, <<"c","o","m","p","u","t","e","r">>, <<"c","o","m","p","s","c","i">>, <<"c","m","s","c">>}
      [] slug = <<"e","c","o","n","o","m","i","c","s">> -> {<<"e","c","o","n">>}
      [] slug = <<"m","a","t","h","e","m","a","t","i","c","s">> -> {<<"m","a","t","h">>, <<"m","a","t","h","s">>}
      [] slug = <<"p","h","y","s","i","c","s">> -> {<<"p","h","y","s">>}
      [] slug = <<"s","t","a","t","i","s","t","i","c","s">> -> {<<"s","t","a","t","s">>, <<"s","t","a","t">>}
      [] slug = <<"b","i","o","l","o","g","i","c","a","l","s","c","i","e","n","c","e","s">> -> {<<"b","i","o">>, <<"b","i","o","l","o","g","y">>}
      [] slug = <<"c","h","e","m","i","s","t","r","y">> -> {<<"c","h","e","m">>}
      [] slug = <<"e","n","g","l","i","s","h">> -> {<<"e","n","g","l","i","s","h">>, <<"e","n","g","l">>}
      [] slug = <<"h","i","s","t","o","r","y">> -> {<<"h","i","s","t">>}
      [] slug = <<"p","h","i","l","o","s","o","p","h","y">> -> {<<"p","h","i","l">>}
      [] slug = <<"p","o","l","i","t","i","c","a","l","s","c","i","e","n","c","e">> -> {<<"p","o","l","i","s","c","i">>, <<"p","o","l","i">>, <<"p","o","l","i","t","i","c","a","l">>}
      [] slug = <<"p","s","y","c","h","o","l","o","g","y">> -> {<<"p","s","y","c","h">>}
      [] slug = <<"s","o","c","i","o","l","o","g","y">> -> {<<"s","o","c">>, <<"s","o","c","i","o">>}
      [] slug = <<"c","a","a","m">> -> {<<"c","a","a","m">>, <<"c","o","m","p","u","t","a","t","i","o","n","a","l">>, <<"a","p","p","l","i","e","d">>}
      [] slug = <<"v","i","s","u","a","l","a","r","t","s">> -> {<<"a","r","t">>, <<"a","r","t","s">>, <<"a","r","t","v">>, <<"v","i","s","u","a","l">>}
      [] OTHER -> {}

StopWords == {<<"a","n","d">>, <<"o","f">>, <<"t","h","e">>, <<"i","n">>}

\* the keyword set _load_data builds for one program
ProgramKeywords(prog) ==
    ((ToSet(split(lower(prog.name))) \cup {lower(prog.slug)}) \cup abbrevs(prog.slug))
        \ StopWords

\* json.load of a file when it exists, the empty dict of __init__ otherwise
LoadFile(file) == IF file = MissingFile THEN <<>> ELSE file

\* self._program_keywords after _load_data: one item per program, in the order of self.programs
BuildKeywordIndex(progs) ==
    [i \in DOMAIN progs |-> [slug |-> progs[i].slug, keywords |-> ProgramKeywords(progs[i])]]

NoArgs ==
    [message |-> <<>>, conversation_history |-> <<>>, completed_courses |-> <<>>,
     in_progress_courses |-> <<>>, code |-> <<>>, content |-> <<>>]

NoLocals == [scored |-> <<>>, matches |-> <<>>, relevant_slugs |-> <<>>, order |-> <<>>]

\* Chatbot.__init__ then _load_data
_load_data(programs_file, courses_file) ==
    /\ programs = LoadFile(programs_file)
    /\ courses = LoadFile(courses_file)
    /\ program_keywords = BuildKeywordIndex(LoadFile(programs_file))
    /\ op = "idle"
    /\ args = NoArgs
    /\ ret = <<>>
    /\ locals = NoLocals

(***************************************************************************)
(* Chatbot._find_relevant_programs                                         *)
(***************************************************************************)
\* the slice [:8] of the ranking
TOP_K == 8

\* the slice [-4:] of the user messages
HISTORY_WINDOW == 4

Turn(role, content) == [role |-> role, content |-> content]

\* user_msgs without the test of the role
user_msgs_AnyRole(conversation_history) ==
    [i \in DOMAIN conversation_history |-> conversation_history[i].content]

\* [m["content"] for m in conversation_history if m.get("role") == "user"]
user_msgs(conversation_history) ==
    LET us == SelectSeq(conversation_history, LAMBDA m : m.role = "user")
    IN  [i \in DOMAIN us |-> us[i].content]

\* history_words over every user message, however old
history_words_AllTurns(conversation_history) ==
    LET recent == user_msgs(conversation_history)
    IN  UNION {ToSet(split(lower(recent[i]))) : i \in DOMAIN recent}

\* history_words: the words of the last four user messages, lowercased
history_words(conversation_history) ==
    LET recent == LastN(user_msgs(conversation_history), HISTORY_WINDOW)
    IN  UNION {ToSet(split(lower(recent[i]))) : i \in DOMAIN recent}

\* what one keyword adds to the score of its program
KeywordScore(kw, msg_lower, msg_words, hist_words) ==
    IF kw \in msg_words \/ In(kw, msg_lower) THEN 2
    ELSE IF kw \in hist_words THEN 1
    ELSE 0

RECURSIVE ProgramScore(_, _, _, _)
\* the loop `for kw in keywords` of one program
ProgramScore(keywords, msg_lower, msg_words, hist_words) ==
    IF keywords = {} THEN 0
    ELSE LET kw == CHOOSE k \in keywords : TRUE
         IN  KeywordScore(kw, msg_lower, msg_words, hist_words)
                 + ProgramScore(keywords \ {kw}, msg_lower, msg_words, hist_words)

\* Scored with `if score >= 0`
Scored_KeepsZero(index, message, conversation_history) ==
    LET msg_lower == lower(message)
        msg_words == ToSet(split(msg_lower))
        hist_words == history_words(conversation_history)
    IN  [i \in DOMAIN index |->
            [slug |-> index[i].slug,
             score |-> ProgramScore(index[i].keywords, msg_lower, msg_words, hist_words)]]

\* the list `scored` before it is sorted: (slug, score) of the programs with score > 0
Scored(index, message, conversation_history) ==
    LET msg_lower == lower(message)
        msg_words == ToSet(split(msg_lower))
        hist_words == history_words(conversation_history)
        all == [i \in DOMAIN index |->
                   [slug |-> index[i].slug,
                    score |-> ProgramScore(index[i].keywords, msg_lower, msg_words,
                                           hist_words)]]
    IN  SelectSeq(all, LAMBDA e : e.score > 0)

RECURSIVE SortByScore_Unstable(_)
\* a sort by score that puts a program before the earlier programs of the same score
SortByScore_Unstable(l) ==
    IF l = <<>> THEN <<>>
    ELSE LET rest == SortByScore_Unstable(SubSeq(l, 1, Len(l) - 1))
             x    == l[Len(l)]
             n    == Cardinality({i \in DOMAIN rest : rest[i].score > x.score})
         IN  SubSeq(rest, 1, n) \o <<x>> \o SubSeq(rest, n + 1, Len(rest))

RECURSIVE SortByScore(_)
\* scored.sort(key=lambda x: x[1], reverse=True): stable, highest score first
SortByScore(l) ==
    IF l = <<>> THEN <<>>
    ELSE LET rest == SortByScore(SubSeq(l, 1, Len(l) - 1))
             x    == l[Len(l)]
             n    == Cardinality({i \in DOMAIN rest : rest[i].score >= x.score})
         IN  SubSeq(rest, 1, n) \o <<x>> \o SubSeq(rest, n + 1, Len(rest))

\* the returned list of slugs
_find_relevant_programs(index, message, conversation_history) ==
    LET ranked == Take(SortByScore(Scored(index, message, conversation_history)), TOP_K)
    IN  [i \in DOMAIN ranked |-> ranked[i].slug]

(***************************************************************************)
(* Chatbot._check_prerequisites                                            *)
(***************************************************************************)
\* code in self.courses
CourseIn(crs, code) == \E i \in DOMAIN crs : crs[i].code = code

\* self.courses[code], for a code in self.courses
CourseGet(crs, code) == crs[CHOOSE i \in DOMAIN crs : crs[i].code = code]

\* \b at offset i of s: exactly one of s[i-1], s[i] is a \w character
WordBoundary(s, i) ==
    (i >= 1 /\ IsWordChar(s[i])) # (i < Len(s) /\ IsWordChar(s[i + 1]))

\* s.index(sub): the offset of the first occurrence
index(s, sub) == CHOOSE i \in 0..Len(s) : MatchesAt(sub, s, i) /\ \A j \in 0..(i - 1) : ~MatchesAt(sub, s, j)

\* the ways \b([A-Z]{2,5})\s+(\d{5})\b matches at offset i: <<letters, spaces>>
PrereqCodeMatches(s, i) ==
    IF ~WordBoundary(s, i) \/ s[i + 1] \notin UpperSet THEN {}
    ELSE {nm \in (2..5) \X (1..(Len(s) - i)) :
             /\ i + nm[1] + nm[2] + 5 <= Len(s)
             /\ \A k \in 1..nm[1] : s[i + k] \in UpperSet
             /\ \A k \in 1..nm[2] : IsSpace(s[i + nm[1] + k])
             /\ \A k \in 1..5 : IsDigit(s[i + nm[1] + nm[2] + k])
             /\ WordBoundary(s, i + nm[1] + nm[2] + 5)}

\* the match the regex engine takes at offset i: greedy letters first, then greedy spaces
PrereqCodeMatch(s, i) ==
    LET ms == PrereqCodeMatches(s, i)
    IN  CHOOSE nm \in ms :
            \A o \in ms : o[1] < nm[1] \/ (o[1] = nm[1] /\ o[2] <= nm[2])

RECURSIVE PrereqCodesFrom(_, _)
\* re.finditer from offset i on: f"{match.group(1)} {match.group(2)}" of each match
PrereqCodesFrom(s, i) ==
    IF i >= Len(s) THEN {}
    ELSE IF PrereqCodeMatches(s, i) = {} THEN PrereqCodesFrom(s, i + 1)
    ELSE LET nm == PrereqCodeMatch(s, i)
             g1 == SubSeq(s, i + 1, i + nm[1])
             g2 == SubSeq(s, i + nm[1] + nm[2] + 1, i + nm[1] + nm[2] + 5)
         IN  {g1 \o <<" ">> \o g2} \cup PrereqCodesFrom(s, i + nm[1] + nm[2] + 5)

\* prereq_codes
PrereqCodes(prereq_text) == PrereqCodesFrom(prereq_text, 0)

Prerequisite == <<"P","r","e","r","e","q","u","i","s","i","t","e">>

\* PrereqText without the fallback to terms_offered and instructors
PrereqText_NoFallback(details) == details.prerequisites

\* PrereqText taking terms_offered as it is, with no test for "Prerequisite"
PrereqText_WholeField(details) ==
    IF details.prerequisites # <<>> THEN details.prerequisites
    ELSE details.terms_offered

\* prereq_text: details["prerequisites"], or else the tail of terms_offered or of
\* instructors from "Prerequisite" on
PrereqText(details) ==
    IF details.prerequisites # <<>> THEN details.prerequisites
    ELSE IF In(Prerequisite, details.terms_offered)
         THEN From(details.terms_offered, index(details.terms_offered, Prerequisite))
    ELSE IF In(Prerequisite, details.instructors)
         THEN From(details.instructors, index(details.instructors, Prerequisite))
    ELSE <<>>

\* the list `missing`, as a set
Missing(prereq_codes, completed_set, in_progress_set) ==
    {pc \in prereq_codes : pc \notin completed_set /\ pc \notin in_progress_set}

\* InProg when a prerequisite in progress is taken as satisfying
InProg_Satisfies(prereq_codes, completed_set, in_progress_set) == {}

\* the list `in_prog`, as a set
InProg(prereq_codes, completed_set, in_progress_set) ==
    {pc \in prereq_codes : pc \notin completed_set /\ pc \in in_progress_set}

\* the explanation of an unsatisfied prerequisite
PrereqIssue(code, missing, in_prog) ==
    LET parts ==
            (IF missing # {}
             THEN <<<<"Not completed: ">> \o Join(<<", ">>, SortedSeq(missing))>>
             ELSE <<>>)
            \o (IF in_prog # {}
                THEN <<<<"In-progress (not yet satisfied): ">>
                          \o Join(<<", ">>, SortedSeq(in_prog))>>
                ELSE <<>>)
    IN  <<"Prereq issue for ">> \o code \o <<": ">> \o Join(<<"; ">>, parts)

Result(satisfied, explanation) == [satisfied |-> satisfied, explanation |-> explanation]

\* f"Prerequisites: {prereq_text}"
Echo(prereq_text) == <<"Prerequisites: ">> \o prereq_text

\* (satisfied, explanation)
_check_prerequisites(crs, code, completed_set, in_progress_set) ==
    IF ~CourseIn(crs, code) THEN Result(TRUE, <<>>)
    ELSE LET course == CourseGet(crs, code)
         IN  LET prereq_text == PrereqText(course.details)
                 prereq_codes == PrereqCodes(prereq_text)
                 missing == Missing(prereq_codes, completed_set, in_progress_set)
                 in_prog == InProg(prereq_codes, completed_set, in_progress_set)
             IN  IF prereq_text = <<>> THEN Result(TRUE, <<>>)
                 ELSE IF prereq_codes = {} THEN Result(TRUE, Echo(prereq_text))
                 ELSE IF missing = {} /\ in_prog = {} THEN Result(TRUE, <<>>)
                 ELSE Result(FALSE, PrereqIssue(code, missing, in_prog))

(***************************************************************************)
(* Chatbot._resolve_course_reference                                       *)
(***************************************************************************)
\* DEPT_ABBREVS.get(dept_raw, dept_raw.upper())
DEPT_ABBREVS(dept_raw) ==
    CASE dept_raw \in {<<"c","s">>, <<"c","m","s","c">>, <<"c","o","m","p","s","c","i">>} -> <<"C","M","S","C">>
      [] dept_raw = <<"m","a","t","h">> -> <<"M","A","T","H">>
      [] dept_raw \in {<<"s","t","a","t">>, <<"s","t","a","t","s">>} -> <<"S","T","A","T">>
      [] dept_raw = <<"e","c","o","n">> -> <<"E","C","O","N">>
      [] dept_raw = <<"p","h","y","s">> -> <<"P","H","Y","S">>
      [] dept_raw = <<"c","h","e","m">> -> <<"C","H","E","M">>
      [] dept_raw \in {<<"b","i","o">>, <<"b","i","o","s">>} -> <<"B","I","O","S">>
      [] dept_raw = <<"p","h","i","l">> -> <<"P","H","I","L">>
      [] dept_raw = <<"p","s","y","c","h">> -> <<"P","S","Y","C">>
      [] dept_raw \in {<<"p","o","l","i","s","c","i">>, <<"p","o","l","i">>} -> <<"P","L","S","C">>
      [] dept_raw = <<"s","o","c">> -> <<"S","O","C","I">>
      [] dept_raw = <<"h","i","s","t">> -> <<"H","I","S","T">>
      [] dept_raw \in {<<"e","n","g","l">>, <<"e","n","g","l","i","s","h">>} -> <<"E","N","G","L">>
      [] dept_raw \in {<<"a","r","t">>, <<"a","r","t","v">>} -> <<"A","R","T","V">>
      [] dept_raw \in {<<"m","u","s","i">>, <<"m","u","s","i","c">>} -> <<"M","U","S","I">>
      [] dept_raw = <<"l","i","n","g">> -> <<"L","I","N","G">>
      [] dept_raw = <<"a","n","t","h">> -> <<"A","N","T","H">>
      [] dept_raw = <<"s","o","s","c">> -> <<"S","O","S","C">>
      [] dept_raw = <<"h","u","m","a">> -> <<"H","U","M","A">>
      [] dept_raw = <<"t","a","p","s">> -> <<"T","A","P","S">>
      [] dept_raw = <<"c","a","a","m">> -> <<"C","A","A","M">>
      [] dept_raw = <<"t","u","r","k">> -> <<"N","E","H","C">>
      [] OTHER -> upper(dept_raw)

\* [\s-]
IsSeparator(c) == IsSpace(c) \/ c = "-"

\* the ways \b([a-zA-Z]{2,6})[\s-]?(\d{2,5})\b matches at offset i:
\* <<letters, separators, digits>>
RefMatches(s, i) ==
    IF ~WordBoundary(s, i) \/ ~IsAlpha(s[i + 1]) THEN {}
    ELSE {v \in (2..6) \X (0..1) \X (2..5) :
             /\ i + v[1] + v[2] + v[3] <= Len(s)
             /\ \A k \in 1..v[1] : IsAlpha(s[i + k])
             /\ \A k \in 1..v[2] : IsSeparator(s[i + v[1] + k])
             /\ \A k \in 1..v[3] : IsDigit(s[i + v[1] + v[2] + k])
             /\ WordBoundary(s, i + v[1] + v[2] + v[3])}

\* v is tried before o by the regex engine: each quantifier is greedy, left to right
TriedBefore(v, o) ==
    \/ v[1] > o[1]
    \/ v[1] = o[1] /\ v[2] > o[2]
    \/ v[1] = o[1] /\ v[2] = o[2] /\ v[3] > o[3]

\* the match the regex engine takes at offset i
RefMatch(s, i) ==
    LET ms == RefMatches(s, i)
    IN  CHOOSE v \in ms : \A o \in ms \ {v} : TriedBefore(v, o)

RECURSIVE RefFindIter(_, _)
\* re.finditer(pattern, message) from offset i on: group(1), group(2), group(0) of each match
RefFindIter(s, i) ==
    IF i >= Len(s) THEN <<>>
    ELSE IF RefMatches(s, i) = {} THEN RefFindIter(s, i + 1)
    ELSE LET v == RefMatch(s, i)
             e == i + v[1] + v[2] + v[3]
         IN  <<[dept |-> SubSeq(s, i + 1, i + v[1]),
                num |-> SubSeq(s, i + v[1] + v[2] + 1, e),
                original |-> SubSeq(s, i + 1, e)]>>
                 \o RefFindIter(s, e)

\* {c.split()[0] for c in self.courses}
KnownDepartments(crs) == {split(crs[i].code)[1] : i \in DOMAIN crs}

\* the skip of a literal that is already a 5-digit code of a known department
AlreadyCanonical(crs, dept_raw, num_raw) ==
    Len(num_raw) = 5 /\ upper(dept_raw) \in KnownDepartments(crs)

\* Padded that fills with zeros on the left
Padded_Left(num_raw) == [k \in 1..(5 - Len(num_raw)) |-> "0"] \o num_raw

\* num_raw + "0" * (5 - len(num_raw)), or num_raw.ljust(5, "0")
Padded(num_raw) ==
    IF Len(num_raw) <= 3
    THEN num_raw \o [k \in 1..(5 - Len(num_raw)) |-> "0"]
    ELSE IF Len(num_raw) >= 5 THEN num_raw
    ELSE num_raw \o [k \in 1..(5 - Len(num_raw)) |-> "0"]

\* f"{official_dept} {padded}"
Candidate(dept_raw, num_raw) == DEPT_ABBREVS(dept_raw) \o <<" ">> \o Padded(num_raw)

\* CandidateFound without the lookup
CandidateFound_Always(crs, candidate) == TRUE

\* candidate in self.courses
CandidateFound(crs, candidate) == CourseIn(crs, candidate)

\* d[key] = value on a dict kept as its items in insertion order
DictSet(d, key, value) ==
    IF \E i \in DOMAIN d : d[i].informal = key
    THEN [i \in DOMAIN d |->
             IF d[i].informal = key THEN [informal |-> key, official |-> value] ELSE d[i]]
    ELSE Append(d, [informal |-> key, official |-> value])

RECURSIVE ResolveMatches(_, _, _)
\* the loop over the matches, resolved being the dict so far
ResolveMatches(crs, matches, resolved) ==
    IF matches = <<>> THEN resolved
    ELSE LET match == matches[1]
             dept_raw == lower(match.dept)
             candidate == Candidate(dept_raw, match.num)
         IN  IF AlreadyCanonical(crs, dept_raw, match.num)
             THEN ResolveMatches(crs, Tail(matches), resolved)
             ELSE IF CandidateFound(crs, candidate)
             THEN ResolveMatches(crs, Tail(matches),
                                 DictSet(resolved, match.original, candidate))
             ELSE ResolveMatches(crs, Tail(matches), resolved)

\* the dict `resolved`
_resolve_course_reference(crs, message) ==
    ResolveMatches(crs, RefFindIter(message, 0), <<>>)

(***************************************************************************)
(* _normalize_code and Chatbot._search_courses_by_name                     *)
(***************************************************************************)
RECURSIVE strip(_)
\* str.strip(): without the leading and trailing whitespace
strip(s) ==
    IF s = <<>> THEN s
    ELSE IF IsSpace(s[1]) THEN strip(Tail(s))
    ELSE IF IsSpace(s[Len(s)]) THEN strip(SubSeq(s, 1, Len(s) - 1))
    ELSE s

\* _normalize_code stripping the ASCII space only, and before the replacement:
\* code.strip(' ').replace('\xa0', ' ')
_normalize_code_StripFirst(code) ==
    LET kept == {i \in DOMAIN code : code[i] # " "}
        stripped == IF kept = {} THEN <<>>
                    ELSE SubSeq(code, CHOOSE i \in kept : \A j \in kept : i <= j,
                                CHOOSE i \in kept : \A j \in kept : i >= j)
    IN  [i \in DOMAIN stripped |-> IF stripped[i] = NBSP THEN " " ELSE stripped[i]]

\* code.replace('\xa0', ' ').strip()
_normalize_code(code) == strip([i \in DOMAIN code |-> IF code[i] = NBSP THEN " " ELSE code[i]])

\* the default limit of _search_courses_by_name
SEARCH_LIMIT == 5

RECURSIVE SearchFrom(_, _, _, _, _)
\* the loop over self.courses.items() from item i on, results being the list so far
SearchFrom(crs, query_lower, limit, i, results) ==
    IF i > Len(crs) THEN results
    ELSE IF In(query_lower, lower(crs[i].name))
    THEN LET r == Append(results, [code |-> crs[i].code, name |-> crs[i].name])
         IN  IF Len(r) >= limit THEN r ELSE SearchFrom(crs, query_lower, limit, i + 1, r)
    ELSE SearchFrom(crs, query_lower, limit, i + 1, results)

\* the list of (code, name) of the courses whose name contains the query
_search_courses_by_name(crs, query, limit) == SearchFrom(crs, lower(query), limit, 1, <<>>)

(***************************************************************************)
(* Chatbot._build_context                                                  *)
(***************************************************************************)
\* the caps of _build_context: description[:500], description[:200],
\* course_details[:25], name_queries[:3], search_results[:10]
PROGRAM_DESCRIPTION_CHARS == 500

COURSE_DESCRIPTION_CHARS == 200

MAX_COURSE_DETAILS == 25

MAX_NAME_QUERIES == 3

MAX_SEARCH_RESULTS == 10

RECURSIVE IntToStr(_)
\* str(n) of an int n >= 0, as an f-string writes it
IntToStr(n) ==
    IF n < 10 THEN <<DigitSeq[n + 1]>>
    ELSE IntToStr(n \div 10) \o <<DigitSeq[(n % 10) + 1]>>

\* self.programs[slug]
ProgramGet(progs, slug) == progs[CHOOSE i \in DOMAIN progs : progs[i].slug = slug]

\* FallbackListing with the names in the order of self.programs
FallbackListing_Unsorted(progs) ==
    LET program_names == [i \in DOMAIN progs |-> progs[i].name]
    IN  <<"\n\nAvailable programs in the catalog:\n">>
            \o Join(<<"\n">>, [i \in DOMAIN program_names |-> <<"- ">> \o program_names[i]])
            \o <<"\n\n(Ask about a specific program for detailed requirements.)">>

\* the early return: the names of all programs, sorted, and the prompt
FallbackListing(progs) ==
    LET program_names == [i \in DOMAIN progs |-> progs[i].name]
        sorted_names == SortedList(program_names)
    IN  <<"\n\nAvailable programs in the catalog:\n">>
            \o Join(<<"\n">>, [i \in DOMAIN sorted_names |-> <<"- ">> \o sorted_names[i]])
            \o <<"\n\n(Ask about a specific program for detailed requirements.)">>

\* StatusMarker testing the in-progress set first
StatusMarker_InProgressFirst(code, completed_set, in_progress_set) ==
    IF code \in in_progress_set THEN <<" [IN PROGRESS]">>
    ELSE IF code \in completed_set THEN <<" [COMPLETED]">>
    ELSE <<>>

\* status_marker of a code
StatusMarker(code, completed_set, in_progress_set) ==
    IF code \in completed_set THEN <<" [COMPLETED]">>
    ELSE IF code \in in_progress_set THEN <<" [IN PROGRESS]">>
    ELSE <<>>

\* one course line of a requirements section
CourseLine(course, completed_set, in_progress_set) ==
    LET prefix == IF course.or_alternative THEN <<"  OR ">>
                  ELSE IF course.elective_option THEN <<"  - ">>
                  ELSE <<>>
        units == IF course.units # <<>> THEN <<" (">> \o course.units \o <<")">> ELSE <<>>
        code == _normalize_code(course.code)
    IN  prefix \o code \o <<": ">> \o course.title \o units
            \o StatusMarker(code, completed_set, in_progress_set) \o <<"\n">>

SectionText(section, completed_set, in_progress_set) ==
    (IF section.header # <<>> THEN <<"\n**">> \o section.header \o <<"**\n">> ELSE <<>>)
        \o Concat([i \in DOMAIN section.courses |->
                      CourseLine(section.courses[i], completed_set, in_progress_set)])

\* the part of one ranked program
ProgramPart(prog, completed_set, in_progress_set) ==
    <<"\n\n## ">> \o prog.name \o <<"\n">>
        \o (IF prog.description # <<>>
            THEN Take(prog.description, PROGRAM_DESCRIPTION_CHARS) \o <<"\n">>
            ELSE <<>>)
        \o (IF prog.requirements # <<>>
            THEN <<"\n### Requirements:\n">>
                     \o Concat([i \in DOMAIN prog.requirements |->
                                   SectionText(prog.requirements[i], completed_set,
                                               in_progress_set)])
            ELSE <<>>)

\* the normalized codes a program lists that are not empty
CodesOfProgram(prog) ==
    {c \in UNION {{_normalize_code(prog.requirements[i].courses[j].code) :
                      j \in DOMAIN prog.requirements[i].courses} :
                  i \in DOMAIN prog.requirements} : c # <<>>}

\* mentioned_codes after the loop over the ranked programs
MentionedCodes(progs, relevant_slugs) ==
    UNION {CodesOfProgram(ProgramGet(progs, relevant_slugs[i])) : i \in DOMAIN relevant_slugs}

\* code_to_programs[code] holding only the name of the first ranked program that
\* lists the code
code_to_programs_First(progs, relevant_slugs, code) ==
    LET listing == {j \in DOMAIN relevant_slugs :
                       code \in CodesOfProgram(ProgramGet(progs, relevant_slugs[j]))}
    IN  {ProgramGet(progs, relevant_slugs[i]).name :
            i \in {j \in listing : \A k \in listing : j <= k}}

\* code_to_programs[code]: the names of the ranked programs that list the code
code_to_programs(progs, relevant_slugs, code) ==
    {ProgramGet(progs, relevant_slugs[i]).name :
        i \in {j \in DOMAIN relevant_slugs :
                  code \in CodesOfProgram(ProgramGet(progs, relevant_slugs[j]))}}

\* the dict `overlaps`, as the set of its keys
Overlaps(progs, relevant_slugs) ==
    {code \in MentionedCodes(progs, relevant_slugs) :
        Cardinality(code_to_programs(progs, relevant_slugs, code)) >= 2}

OverlapLine(progs, crs, relevant_slugs, code, completed_set, in_progress_set) ==
    LET names == SortedSeq(code_to_programs(progs, relevant_slugs, code))
        name == IF CourseIn(crs, code) THEN CourseGet(crs, code).name ELSE <<>>
    IN  <<"- **">> \o code \o <<"**: ">> \o name \o <<" → counts for: ">>
            \o Join(<<", ">>, names)
            \o StatusMarker(code, completed_set, in_progress_set) \o <<"\n">>

\* the cross-program overlap section (<<>>: nothing is appended)
OverlapSection(progs, crs, relevant_slugs, completed_set, in_progress_set) ==
    LET codes == SortedSeq(Overlaps(progs, relevant_slugs))
    IN  IF Len(relevant_slugs) >= 2 /\ codes # <<>>
        THEN <<"\n\n### Cross-Program Overlap\n",
               "These courses count toward multiple programs:\n">>
                 \o Concat([i \in DOMAIN codes |->
                               OverlapLine(progs, crs, relevant_slugs, codes[i],
                                           completed_set, in_progress_set)])
        ELSE <<>>

\* the heading line of a course detail
DetailHead(code, c) ==
    <<"\n**">> \o code \o <<" - ">> \o c.name \o <<"** (">> \o IntToStr(c.units)
        \o <<" units)">>

\* the detail of a course listed by a ranked program
CourseDetail(code, c) ==
    LET terms == c.details.terms_offered
    IN  DetailHead(code, c)
            \o <<"\n">> \o Take(c.description, COURSE_DESCRIPTION_CHARS)
            \o (IF c.details.prerequisites # <<>>
                THEN <<"\nPrerequisites: ">> \o c.details.prerequisites
                ELSE IF terms # <<>> /\ In(Prerequisite, terms) THEN <<"\n">> \o terms
                ELSE <<>>)
            \o (IF terms # <<>> /\ ~In(Prerequisite, terms)
                THEN <<"\nTerms: ">> \o terms
                ELSE <<>>)

\* course_details: one detail per code of `order` that is a course with a description
CourseDetails(crs, order) ==
    LET with == SelectSeq(order, LAMBDA code :
                    CourseIn(crs, code) /\ CourseGet(crs, code).description # <<>>)
    IN  [i \in DOMAIN with |-> CourseDetail(with[i], CourseGet(crs, with[i]))]

\* PrereqWarnings checking every tracked code, whatever the transcript says of it
PrereqWarnings_EveryCode(crs, order, completed_set, in_progress_set) ==
    LET checks == [i \in DOMAIN order |->
                      _check_prerequisites(crs, order[i], completed_set, in_progress_set)]
        failed == SelectSeq(checks, LAMBDA r : ~r.satisfied)
    IN  [i \in DOMAIN failed |-> failed[i].explanation]

\* prereq_warnings: the explanations of the tracked codes, in iteration order, that
\* are neither completed nor in progress and whose check is not satisfied
PrereqWarnings(crs, order, completed_set, in_progress_set) ==
    LET open == SelectSeq(order, LAMBDA code :
                    code \notin completed_set /\ code \notin in_progress_set)
        checks == [i \in DOMAIN open |->
                      _check_prerequisites(crs, open[i], completed_set, in_progress_set)]
        failed == SelectSeq(checks, LAMBDA r : ~r.satisfied)
    IN  [i \in DOMAIN failed |-> failed[i].explanation]

CourseDetailsSection(course_details) ==
    IF course_details # <<>>
    THEN <<"\n### Course Details:\n">>
             \o Join(<<"\n">>, Take(course_details, MAX_COURSE_DETAILS))
    ELSE <<>>

PrereqWarningsSection(prereq_warnings) ==
    IF prereq_warnings # <<>>
    THEN <<"\n\n### Prerequisite Warnings:\n">>
             \o Join(<<"\n">>, [i \in DOMAIN prereq_warnings |->
                                   <<"- ">> \o prereq_warnings[i]])
    ELSE <<>>

\* the detail of a resolved course that no ranked program lists
ResolvedDetail(official, c) ==
    DetailHead(official, c)
        \o (IF c.description # <<>>
            THEN <<"\n">> \o Take(c.description, COURSE_DESCRIPTION_CHARS)
            ELSE <<>>)
        \o (IF PrereqText(c.details) # <<>>
            THEN (IF c.details.prerequisites # <<>> THEN <<"\nPrerequisites: ">>
                  ELSE <<"\n">>) \o PrereqText(c.details)
            ELSE <<>>)

ResolvedItem(crs, item, mentioned_codes) ==
    LET c == CourseGet(crs, item.official)
    IN  <<"- \"">> \o item.informal \o <<"\" → **">> \o item.official \o <<"**: ">>
            \o (IF CourseIn(crs, item.official) THEN c.name ELSE <<>>) \o <<"\n">>
            \o (IF item.official \notin mentioned_codes /\ CourseIn(crs, item.official)
                THEN ResolvedDetail(item.official, c) \o <<"\n">>
                ELSE <<>>)

\* the resolved references section (<<>>: nothing is appended)
ResolutionSection(crs, resolved, mentioned_codes) ==
    IF resolved # <<>>
    THEN <<"\n\n### Resolved Course References:\n">>
             \o Concat([i \in DOMAIN resolved |->
                           ResolvedItem(crs, resolved[i], mentioned_codes)])
    ELSE <<>>

\* the offset of the first '"' of s at or after offset i (Len(s): there is none)
NextQuote(s, i) ==
    IF \E j \in i..(Len(s) - 1) : s[j + 1] = "\""
    THEN CHOOSE j \in i..(Len(s) - 1) :
             s[j + 1] = "\"" /\ \A k \in i..(j - 1) : s[k + 1] # "\""
    ELSE Len(s)

RECURSIVE QuotedFrom(_, _)
\* re.findall(r'"([^"]+)"', s) from offset i on
QuotedFrom(s, i) ==
    LET a == NextQuote(s, i)
        b == NextQuote(s, a + 1)
    IN  IF a >= Len(s) \/ b >= Len(s) THEN <<>>
        ELSE IF b = a + 1 THEN QuotedFrom(s, b)
        ELSE <<SubSeq(s, a + 2, b)>> \o QuotedFrom(s, b + 1)

\* the alternatives of (?:like|called|named|about|such as)
CueWords == <<<<"l","i","k","e">>, <<"c","a","l","l","e","d">>, <<"n","a","m","e","d">>, <<"a","b","o","u","t">>, <<"s","u","c","h"," ","a","s">>>>

\* the bounds of [a-zA-Z\s]{2,30}
CUE_MIN_REST == 2

CUE_MAX_REST == 30

\* the length of the run of characters of the class `chars` at offset i of s, at most max
RunLength(s, i, max, chars) ==
    LET ns == {n \in 0..max : i + n <= Len(s) /\ \A k \in 1..n : s[i + k] \in chars}
    IN  CHOOSE n \in ns : \A m \in ns : m <= n

\* ["\']
QuoteChars == {"\"", "'"}

\* \s
SpaceChars == {c \in ToSet(CodePoints) : IsSpace(c)}

\* [a-zA-Z\s]
AlphaOrSpaceChars == {c \in ToSet(CodePoints) : IsAlpha(c) \/ IsSpace(c)}

\* the match of the cue pattern at offset i: [found, group, end]
CueMatchAt(s, i) ==
    LET cues == {k \in DOMAIN CueWords : MatchesAt(CueWords[k], lower(s), i)}
        none == [found |-> FALSE, group |-> <<>>, end |-> i]
    IN  IF ~WordBoundary(s, i) \/ cues = {} THEN none
        ELSE LET cue == CueWords[CHOOSE k \in cues : \A o \in cues : k <= o]
                 a == i + Len(cue)
                 sp == RunLength(s, a, Len(s), SpaceChars)
                 b == a + sp
                 q == RunLength(s, b, 1, QuoteChars)
                 c == b + q
                 rest == RunLength(s, c + 1, CUE_MAX_REST, AlphaOrSpaceChars)
                 e == c + 1 + rest
             IN  IF sp = 0 \/ c >= Len(s) THEN none
                 ELSE IF ~IsAlpha(s[c + 1]) \/ rest < CUE_MIN_REST THEN none
                 ELSE [found |-> TRUE, group |-> SubSeq(s, c + 1, e),
                       end |-> e + RunLength(s, e, 1, QuoteChars)]

RECURSIVE CueFindIter(_, _)
\* re.finditer of the cue pattern from offset i on: group(1) of each match
CueFindIter(s, i) ==
    IF i >= Len(s) THEN <<>>
    ELSE LET m == CueMatchAt(s, i)
         IN  IF m.found THEN <<m.group>> \o CueFindIter(s, m.end)
             ELSE CueFindIter(s, i + 1)

RECURSIVE rstrip(_, _)
\* str.rstrip(chars)
rstrip(s, chars) ==
    IF s # <<>> /\ s[Len(s)] \in chars THEN rstrip(SubSeq(s, 1, Len(s) - 1), chars) ELSE s

\* a candidate is kept when it has more than this many characters
MIN_CANDIDATE_LEN == 2

\* name_queries: the quoted phrases, then the phrases after a cue word
NameQueries(message) ==
    LET groups == CueFindIter(message, 0)
        candidates == [i \in DOMAIN groups |-> rstrip(strip(groups[i]), {".", ",", "?", "!"})]
    IN  QuotedFrom(message, 0)
            \o SelectSeq(candidates, LAMBDA c : Len(c) > MIN_CANDIDATE_LEN)

RECURSIVE SearchLines(_, _, _)
\* the loop over the results of the queries: a line per code not yet in `seen`
SearchLines(results, seen, lines) ==
    IF results = <<>> THEN lines
    ELSE IF results[1].code \in seen THEN SearchLines(Tail(results), seen, lines)
    ELSE SearchLines(Tail(results), seen \cup {results[1].code},
                     Append(lines, <<"- **">> \o results[1].code \o <<"**: ">>
                                       \o results[1].name))

\* search_results
SearchResults(crs, name_queries, mentioned_codes) ==
    LET qs == Take(name_queries, MAX_NAME_QUERIES)
        results == Concat([i \in DOMAIN qs |->
                              _search_courses_by_name(crs, qs[i], SEARCH_LIMIT)])
    IN  SearchLines(results, mentioned_codes, <<>>)

SearchSection(search_results) ==
    IF search_results # <<>>
    THEN <<"\n\n### Course Name Search Results:\n">>
             \o Join(<<"\n">>, Take(search_results, MAX_SEARCH_RESULTS))
    ELSE <<>>

\* The context string.  relevant_slugs is what _find_relevant_programs returned
\* and `order` the order in which `for code in mentioned_codes` visits the set.
BuildContextFrom(progs, crs, relevant_slugs, order, message, completed_courses, in_progress_courses) ==
    LET completed_set == ToSet(completed_courses)
        in_progress_set == ToSet(in_progress_courses)
        mentioned_codes == MentionedCodes(progs, relevant_slugs)
    IN  IF relevant_slugs = <<>> /\ progs # <<>> THEN FallbackListing(progs)
        ELSE Concat([i \in DOMAIN relevant_slugs |->
                        ProgramPart(ProgramGet(progs, relevant_slugs[i]),
                                    completed_set, in_progress_set)])
                 \o OverlapSection(progs, crs, relevant_slugs, completed_set,
                                   in_progress_set)
                 \o CourseDetailsSection(CourseDetails(crs, order))
                 \o PrereqWarningsSection(
                        PrereqWarnings(crs, order, completed_set, in_progress_set))
                 \o ResolutionSection(crs, _resolve_course_reference(crs, message),
                                      mentioned_codes)
                 \o SearchSection(SearchResults(crs, NameQueries(message),
                                                mentioned_codes))

\* the orders in which a set can be iterated
Orders(S) ==
    {o \in [1..Cardinality(S) -> S] : \A i, j \in DOMAIN o : i # j => o[i] # o[j]}

\* the hash seeds a process can start with (PYTHONHASHSEED is random unless set),
\* each kept as the order it gives to the codes the programs list
HashSeeds(progs) ==
    Orders(UNION {CodesOfProgram(progs[i]) : i \in DOMAIN progs})

\* a seed to stand for all of them where no operation iterates a set of str
AnySeed(progs) == CHOOSE seed \in HashSeeds(progs) : TRUE

\* `for code in S` of a set S of codes under a seed
IterationOrder(seed, S) == SelectSeq(seed, LAMBDA code : code \in S)

_build_context(progs, crs, keyword_index, order, message, completed_courses, in_progress_courses, conversation_history) ==
    BuildContextFrom(progs, crs,
                     _find_relevant_programs(keyword_index, message, conversation_history),
                     order, message, completed_courses, in_progress_courses)

(***************************************************************************)
(* Chatbot.chat and the /chat endpoint                                     *)
(***************************************************************************)
\* the fixed persona text, written out as it is
SYSTEM_PROMPT == <<"You are an experienced academic advisor ...">>

NO_DATA_NOTE == <<"\n\n[Note: No scraped catalog data is currently loaded. ...]">>

\* max_tokens of the request
MAX_TOKENS == 2500

\* the transcript part of system_content
TranscriptSection(completed_courses, in_progress_courses) ==
    IF completed_courses # <<>> \/ in_progress_courses # <<>>
    THEN <<"\n\n--- STUDENT TRANSCRIPT ---\n">>
             \o (IF completed_courses # <<>>
                 THEN <<"**COMPLETED** (grade received ...):\n">>
                          \o Join(<<", ">>, SortedList(completed_courses)) \o <<"\n\n">>
                 ELSE <<>>)
             \o (IF in_progress_courses # <<>>
                 THEN <<"**IN PROGRESS** (currently enrolled ...):\n">>
                          \o Join(<<", ">>, SortedList(in_progress_courses)) \o <<"\n\n">>
                 ELSE <<>>)
             \o <<"When discussing requirements, clearly mark which are fulfilled, ...">>
    ELSE <<>>

\* system_content of chat, context being what _build_context returned (<<>> when
\* it was not called)
SystemContent(progs, crs, context, completed_courses, in_progress_courses) ==
    SYSTEM_PROMPT
        \o (IF progs = <<>> THEN NO_DATA_NOTE
            ELSE IF context # <<>> THEN <<"\n\n--- CATALOG DATA ---">> \o context
            ELSE <<>>)
        \o TranscriptSection(completed_courses, in_progress_courses)

\* the messages list of the request
Messages(system_content, conversation_history, message) ==
    <<Turn("system", system_content)>> \o conversation_history
        \o <<Turn("user", message)>>

\* the arguments of self.client.chat.completions.create
Completion(messages) ==
    [messages |-> messages, temperature |-> "0.3", max_tokens |-> MAX_TOKENS]

\* the program map after _build_context, had it stored each normalized code back
\* into the entry it read
ProgramsAfterContext_CodesStored(progs, relevant_slugs) ==
    [i \in DOMAIN progs |->
        IF \E a \in DOMAIN relevant_slugs : relevant_slugs[a] = progs[i].slug
        THEN [progs[i] EXCEPT !.requirements =
                 [s \in DOMAIN progs[i].requirements |->
                     [progs[i].requirements[s] EXCEPT !.courses =
                         [c \in DOMAIN progs[i].requirements[s].courses |->
                             [progs[i].requirements[s].courses[c] EXCEPT !.code =
                                 _normalize_code(
                                     progs[i].requirements[s].courses[c].code)]]]]]
        ELSE progs[i]]

\* the program map after _build_context has walked the ranked programs: the
\* loop reads prog, section and course and assigns to none of them
ProgramsAfterContext(progs, relevant_slugs) == progs

\* the handlers of the server run in these worker threads
Workers == {1, 2}

\* request.get_json() of a body without the given keys: data.get() gives the default
Body(keys, message, history, transcript) ==
    [keys |-> keys, message |-> message, history |-> history,
     completed_courses |-> transcript.completed,
     in_progress_courses |-> transcript.in_progress]

NoResponse == [status |-> 0, body |-> [error |-> <<>>]]

\* a worker with no request
IdleThread ==
    [pc |-> "idle", data |-> Body({}, <<>>, <<>>, [completed |-> <<>>, in_progress |-> <<>>]),
     message |-> <<>>, chat_called |-> FALSE, context_built |-> FALSE, context |-> <<>>,
     system_content |-> <<>>, requests |-> <<>>, failures |-> 0, response |-> NoResponse]

NoThreads == [w \in Workers |-> IdleThread]

\* data["message"].strip() without the strip
MessageOf_Unstripped(data) == data.message

\* message = data["message"].strip()
MessageOf(data) == strip(data.message)

\* the handler up to the call of bot.chat: the 400 responses, or the call
Validated(th, data) ==
    IF "message" \notin data.keys
    THEN [th EXCEPT !.pc = "done", !.data = data,
                    !.response = [status |-> 400,
                                  body |-> [error |-> <<"Missing 'message' field">>]]]
    ELSE IF MessageOf(data) = <<>>
    THEN [th EXCEPT !.pc = "done", !.data = data,
                    !.response = [status |-> 400, body |-> [error |-> <<"Empty message">>]]]
    ELSE [th EXCEPT !.pc = "chat", !.data = data, !.message = MessageOf(data),
                    !.chat_called = TRUE]

\* chat up to the messages list: the context, when there are programs, and
\* system_content
Prompted(th, progs, crs, keyword_index, seed) ==
    LET relevant_slugs ==
            _find_relevant_programs(keyword_index, th.message, th.data.history)
        context ==
            IF progs = <<>> THEN <<>>
            ELSE _build_context(progs, crs, keyword_index,
                                IterationOrder(seed, MentionedCodes(progs, relevant_slugs)),
                                th.message, th.data.completed_courses,
                                th.data.in_progress_courses, th.data.history)
    IN  [th EXCEPT !.pc = "request",
                   !.context_built = (progs # <<>>),
                   !.context = context,
                   !.system_content =
                       SystemContent(progs, crs, context, th.data.completed_courses,
                                     th.data.in_progress_courses)]

\* the call of create: one request goes out
Requested(th) ==
    [th EXCEPT !.pc = "await",
               !.requests = Append(@, Completion(Messages(th.system_content,
                                                          th.data.history, th.message)))]

\* create returned: chat returns the content, the handler the reply
OnReply(th, content) ==
    [th EXCEPT !.pc = "done", !.response = [status |-> 200, body |-> [reply |-> content]]]

\* OnBackendError of a chat that tries the request once more before giving up
OnBackendError_RetryOnce(th, e) ==
    IF Len(th.requests) < 2
    THEN [th EXCEPT !.pc = "request", !.failures = @ + 1]
    ELSE [th EXCEPT !.pc = "done", !.failures = @ + 1,
                    !.response = [status |-> 500, body |-> [error |-> e]]]

\* create raised e: chat lets it through, the handler answers str(e) with 500
OnBackendError(th, e) ==
    [th EXCEPT !.pc = "done", !.failures = @ + 1,
               !.response = [status |-> 500, body |-> [error |-> e]]]

(***************************************************************************)
(* Bounds and the inputs drawn within them                                 *)
(***************************************************************************)
\* words in a message given to _find_relevant_programs
MaxMsgWords == 2

\* user turns in a conversation history
MaxUserTurns == 5

\* the sequences over S of length lo..hi
SeqsOf(S, lo, hi) == UNION {[1..k -> S] : k \in lo..hi}

RankWords == {<<"m","a","t","h","s">>, <<"S","c","i","e","n","c","e","s">>, <<"z","z","z">>}

RankMessages == {Join(<<" ">>, ws) : ws \in SeqsOf(RankWords, 1, MaxMsgWords)}

UserContents == {<<"E","c","o","n"," ","m","a","t","h","s">>, <<"h","i">>}

\* the reply that follows each user turn, when the history holds replies
AssistantContents == {<<"a","r","t">>}

RECURSIVE Conversation(_, _)
\* user turns us, each followed by the reply `reply` (<<>>: the history holds no replies)
Conversation(us, reply) ==
    IF us = <<>> THEN <<>>
    ELSE <<Turn("user", us[1])>>
             \o (IF reply = <<>> THEN <<>> ELSE <<Turn("assistant", reply)>>)
             \o Conversation(Tail(us), reply)

Histories ==
    {Conversation(us, reply) :
        us \in SeqsOf(UserContents, 0, MaxUserTurns),
        reply \in AssistantContents \cup {<<>>}}

\* pieces in the prerequisites text of the course under test
MaxPrereqPieces == 2

PrereqPieces ==
    {<<"M","A","T","H"," ","1","5","3","0","0">>, <<","," ","S","T","A","T",NBSP," ","2","4","4","0","0">>, <<" ","o","r"," ","c","o","n","s","e","n","t">>, <<"m","a","t","h"," ","1","5","3">>, <<"X">>}

PrereqTexts == {Concat(ps) : ps \in SeqsOf(PrereqPieces, 0, MaxPrereqPieces)}

TermsTexts ==
    {<<>>, <<"A","u","t","u","m","n">>, <<"A","u","t","u","m","n","P","r","e","r","e","q","u","i","s","i","t","e","(","s",")",":"," ","M","A","T","H"," ","1","5","3","0","0">>,
     <<"W","i","n","t","e","r"," ","(","p","r","e","r","e","q","u","i","s","i","t","e",":"," ","n","o","n","e",")">>}

InstructorTexts == {<<>>, <<"S","t","a","f","f">>, <<"S","t","a","f","f","P","r","e","r","e","q","u","i","s","i","t","e","(","s",")",":"," ","c","o","n","s","e","n","t">>}

\* the details of the course under test: every prerequisites text with plain
\* terms_offered, and every fallback combination with prerequisites empty or set
DetailChoices ==
    {Details(p, <<"A","u","t","u","m","n">>, <<>>) : p \in PrereqTexts}
        \cup {Details(p, t, i) :
                 p \in {<<>>, <<"M","A","T","H"," ","1","5","3","0","0">>}, t \in TermsTexts, i \in InstructorTexts}

ProbeCode == <<"M","A","T","H"," ","2","0","2","5","0">>

UnknownCode == <<"M","A","T","H"," ","9","9","9","9","9">>

ProbeCourse(details) ==
    Course(ProbeCode, <<"A","b","s","t","r","a","c","t"," ","L","i","n","e","a","r"," ","A","l","g","e","b","r","a">>, 100, <<"V","e","c","t","o","r"," ","s","p","a","c","e","s",".">>, details)

\* the codes of a transcript
TranscriptCodes == {<<"M","A","T","H"," ","1","5","3","0","0">>, <<"S","T","A","T"," ","2","4","4","0","0">>}

\* pieces in a message given to _resolve_course_reference
MaxRefPieces == 2

RefPieces ==
    {<<"c","s","1","4","3">>, <<" ","c","s","1","4","3","0","0">>, <<" ","C","M","S","C"," ","1","4","3","0","0">>, <<" ","S","t","a","t","-","2","4","4">>, <<" ","n","e","h","c"," ","2","0","1">>,
     <<" ","m","a","t","h","1","5","3","0","0">>, <<"x">>, <<"7">>}

RefMessages == {Concat(ps) : ps \in SeqsOf(RefPieces, 1, MaxRefPieces)}

C_CMSC14300 ==
    Course(<<"C","M","S","C"," ","1","4","3","0","0">>, <<"S","y","s","t","e","m","s"," ","P","r","o","g","r","a","m","m","i","n","g"," ","I">>, 100, <<"P","r","o","g","r","a","m","m","i","n","g"," ","i","n"," ","C",".">>,
           Details(<<"C","M","S","C"," ","1","4","2","0","0">>, <<"A","u","t","u","m","n">>, <<>>))

C_MATH15300 ==
    Course(<<"M","A","T","H"," ","1","5","3","0","0">>, <<"C","a","l","c","u","l","u","s"," ","I","I","I">>, 100, <<"S","e","r","i","e","s",".">>,
           Details(<<"M","A","T","H"," ","1","5","2","0","0"," ","o","r"," ","p","l","a","c","e","m","e","n","t">>, <<>>, <<>>))

C_MATH20250 ==
    Course(<<"M","A","T","H"," ","2","0","2","5","0">>, <<"A","b","s","t","r","a","c","t"," ","L","i","n","e","a","r"," ","A","l","g","e","b","r","a">>, 100, <<"V","e","c","t","o","r"," ","s","p","a","c","e","s",".">>,
           Details(<<>>, <<"A","u","t","u","m","n"," ","W","i","n","t","e","r","P","r","e","r","e","q","u","i","s","i","t","e","(","s",")",":"," ","M","A","T","H"," ","1","5","3","0","0"," ","o","r"," ","M","A","T","H"," ","1","6","3","0","0">>, <<>>))

C_STAT24400 ==
    Course(<<"S","T","A","T"," ","2","4","4","0","0">>, <<"S","t","a","t","i","s","t","i","c","a","l"," ","T","h","e","o","r","y"," ","a","n","d"," ","M","e","t","h","o","d","s"," ","I">>, 100, <<>>,
           Details(<<"C","o","n","s","e","n","t"," ","o","f"," ","i","n","s","t","r","u","c","t","o","r">>, <<>>, <<>>))

C_NEHC20100 ==
    Course(<<"N","E","H","C"," ","2","0","1","0","0">>, <<"E","l","e","m","e","n","t","a","r","y"," ","T","u","r","k","i","s","h">>, 100, <<"G","r","a","m","m","a","r",".">>,
           Details(<<"C","o","n","s","e","n","t"," ","o","f"," ","i","n","s","t","r","u","c","t","o","r">>, <<>>, <<>>))

C_ECON20000 ==
    Course(<<"E","C","O","N"," ","2","0","0","0","0">>, <<"E","l","e","m","e","n","t","s"," ","o","f"," ","E","c","o","n","o","m","i","c"," ","A","n","a","l","y","s","i","s"," ","I">>, 100, <<"P","r","i","c","e"," ","t","h","e","o","r","y",".">>,
           Details(<<"M","A","T","H"," ","1","5","3","0","0">>, <<>>, <<>>))

\* courses.json of a scrape
SampleCourses ==
    <<C_CMSC14300, C_MATH15300, C_MATH20250, C_STAT24400, C_NEHC20100, C_ECON20000>>

\* courses.json of a scrape that found no CMSC and no MATH course
FewCourses == <<C_STAT24400, C_NEHC20100>>

\* pieces in a message given to _build_context
MaxCtxPieces == 2

CtxPieces == {<<"m","a","t","h","s">>, <<"S","t","a","t","-","2","4","4">>, <<"\"","C","a","l","c","u","l","u","s","\"">>, <<"a","b","o","u","t"," ","t","u","r","k","i","s","h">>}

CtxMessages == {Join(<<" ">>, ps) : ps \in SeqsOf(CtxPieces, 1, MaxCtxPieces)}

\* histories of user turns: none, or one turn that names two programs and then
\* k turns "hi"
CtxHistories ==
    {<<>>} \cup
        {Conversation(<<<<"E","c","o","n"," ","m","a","t","h","s">>>> \o [i \in 1..k |-> <<"h","i">>], <<>>) :
            k \in {0, HISTORY_WINDOW - 1, HISTORY_WINDOW}}

\* transcripts: [completed, in_progress], each a list of codes
CtxTranscripts ==
    {[completed |-> <<>>, in_progress |-> <<>>],
     [completed |-> <<<<"M","A","T","H"," ","1","5","3","0","0">>>>, in_progress |-> <<<<"M","A","T","H"," ","2","0","2","5","0">>>>],
     [completed |-> <<<<"M","A","T","H"," ","2","0","2","5","0">>>>,
      in_progress |-> <<<<"M","A","T","H"," ","2","0","2","5","0">>, <<"M","A","T","H"," ","1","5","3","0","0">>>>]}

(***************************************************************************)
(* Operations                                                              *)
(***************************************************************************)
FindRelevantPrograms ==
    /\ op = "idle"
    /\ \E message \in RankMessages, conversation_history \in Histories :
           /\ op' = "_find_relevant_programs"
           /\ args' = [NoArgs EXCEPT !.message = message,
                                     !.conversation_history = conversation_history]
           /\ ret' = _find_relevant_programs(program_keywords, message, conversation_history)
           /\ locals' = [NoLocals EXCEPT
                            !.scored = Scored(program_keywords, message, conversation_history)]
           /\ UNCHANGED <<catalog, hash_seed, threads>>

CheckPrerequisites ==
    /\ op = "idle"
    /\ \E code \in {ProbeCode, UnknownCode},
          completed_set \in SUBSET TranscriptCodes,
          in_progress_set \in SUBSET TranscriptCodes :
           /\ op' = "_check_prerequisites"
           /\ args' = [NoArgs EXCEPT !.code = code,
                                     !.completed_courses = completed_set,
                                     !.in_progress_courses = in_progress_set]
           /\ ret' = _check_prerequisites(courses, code, completed_set, in_progress_set)
           /\ locals' = NoLocals
           /\ UNCHANGED <<catalog, hash_seed, threads>>

ResolveCourseReference ==
    /\ op = "idle"
    /\ \E message \in RefMessages :
           /\ op' = "_resolve_course_reference"
           /\ args' = [NoArgs EXCEPT !.message = message]
           /\ ret' = _resolve_course_reference(courses, message)
           /\ locals' = [NoLocals EXCEPT !.matches = RefFindIter(message, 0)]
           /\ UNCHANGED <<catalog, hash_seed, threads>>

BuildContext ==
    /\ op = "idle"
    /\ \E message \in CtxMessages, conversation_history \in CtxHistories,
          transcript \in CtxTranscripts :
           \E relevant_slugs \in
                  {_find_relevant_programs(program_keywords, message, conversation_history)} :
               \E order \in {IterationOrder(hash_seed,
                                              MentionedCodes(programs, relevant_slugs))} :
                   /\ op' = "_build_context"
                   /\ args' = [NoArgs EXCEPT
                                  !.message = message,
                                  !.conversation_history = conversation_history,
                                  !.completed_courses = transcript.completed,
                                  !.in_progress_courses = transcript.in_progress]
                   /\ ret' = _build_context(programs, courses, program_keywords, order,
                                            message, transcript.completed,
                                            transcript.in_progress, conversation_history)
                   /\ locals' = [NoLocals EXCEPT !.relevant_slugs = relevant_slugs,
                                                 !.order = order]
                   /\ UNCHANGED <<catalog, hash_seed, threads>>

\* the caller takes the result; the object is ready for the next call
Return ==
    /\ op # "idle"
    /\ op' = "idle"
    /\ args' = NoArgs
    /\ ret' = <<>>
    /\ locals' = NoLocals
    /\ UNCHANGED <<catalog, hash_seed, threads>>

(***************************************************************************)
(* The relevance resolver on its own                                       *)
(***************************************************************************)
InitRank ==
    /\ \E pf \in {SmallPrograms, BigPrograms} : _load_data(pf, MissingFile)
    /\ hash_seed = AnySeed(programs)
    /\ threads = NoThreads

NextRank == FindRelevantPrograms \/ Return

SpecRank == InitRank /\ [][NextRank]_vars

(***************************************************************************)
(* The prerequisite checker on its own                                     *)
(***************************************************************************)
InitPrereq ==
    /\ \E d \in DetailChoices : _load_data(SmallPrograms, <<ProbeCourse(d)>>)
    /\ hash_seed = AnySeed(programs)
    /\ threads = NoThreads

NextPrereq == CheckPrerequisites \/ Return

SpecPrereq == InitPrereq /\ [][NextPrereq]_vars

(***************************************************************************)
(* The reference resolver on its own                                       *)
(***************************************************************************)
InitResolve ==
    /\ \E cf \in {MissingFile, FewCourses, SampleCourses} : _load_data(SmallPrograms, cf)
    /\ hash_seed = AnySeed(programs)
    /\ threads = NoThreads

NextResolve == ResolveCourseReference \/ Return

SpecResolve == InitResolve /\ [][NextResolve]_vars

(***************************************************************************)
(* The context builder                                                     *)
(***************************************************************************)
Init ==
    /\ \E files \in {<<MissingFile, SampleCourses>>, <<SmallPrograms, SampleCourses>>,
                     <<SmallPrograms, FewCourses>>, <<TwinPrograms, SampleCourses>>} :
           _load_data(files[1], files[2])
    /\ hash_seed \in HashSeeds(programs)
    /\ threads = NoThreads

Next == BuildContext \/ Return

Spec == Init /\ [][Next]_vars

(***************************************************************************)
(* Statements about _find_relevant_programs                                *)
(***************************************************************************)
RankCall == op = "_find_relevant_programs"

KeywordsOf(slug) ==
    LET j == CHOOSE k \in DOMAIN program_keywords : program_keywords[k].slug = slug
    IN  program_keywords[j].keywords

\* the positions of the last four turns of h whose role is "user"
RecentUserPositions(h) ==
    LET U == {i \in DOMAIN h : h[i].role = "user"}
    IN  {i \in U : Cardinality({j \in U : j > i}) < 4}

\* the word set of those turns
RecentUserWords(h) ==
    UNION {ToSet(split(lower(h[i].content))) : i \in RecentUserPositions(h)}

\* the words of every turn of h, whatever its role and age
AllTurnWords(h) == UNION {ToSet(split(lower(h[i].content))) : i \in DOMAIN h}

\* h cut down to its last four user turns
RecentUserTurns(h) ==
    LastN(SelectSeq(h, LAMBDA m : m.role = "user"), 4)

\* the score as specified: 2 per keyword of the message, 1 per further keyword
\* among the words hw of the history
StatedScore(keywords, msg_lower, msg_words, hw) ==
    LET inMsg == {kw \in keywords : kw \in msg_words \/ In(kw, msg_lower)}
    IN  2 * Cardinality(inMsg) + Cardinality((keywords \ inMsg) \cap hw)

\* the stated score of every program of the map, by position, for the call held
StatedScores ==
    LET msg_lower == lower(args.message)
        msg_words == ToSet(split(msg_lower))
        hw == RecentUserWords(args.conversation_history)
    IN  [i \in DOMAIN programs |->
            StatedScore(KeywordsOf(programs[i].slug), msg_lower, msg_words, hw)]

PositionOfSlug(slug) == CHOOSE i \in DOMAIN programs : programs[i].slug = slug

\* no keyword of any program is a word of the message or a substring of the
\* lowercased message
NoKeywordInMessage(message) ==
    \E msg_lower \in {lower(message)} :
        \E msg_words \in {ToSet(split(msg_lower))} :
            \A j \in DOMAIN program_keywords :
                \A kw \in program_keywords[j].keywords :
                    kw \notin msg_words /\ ~In(kw, msg_lower)

\* C4: _find_relevant_programs returns only slugs of programs whose score is
\* greater than 0, and returns the empty list when no keyword of any program
\* occurs in the message and the history is empty.
C4_OnlyPositiveScores ==
    RankCall =>
        \E sc \in {StatedScores} :
            /\ \A i \in DOMAIN ret :
                  \E k \in DOMAIN programs : programs[k].slug = ret[i] /\ sc[k] > 0
            /\ (args.conversation_history = <<>> /\ NoKeywordInMessage(args.message))
                  => ret = <<>>

C4_Witness ==
    /\ RankCall
    /\ programs # <<>>
    /\ args.conversation_history = <<>>
    /\ NoKeywordInMessage(args.message)
    /\ ret = <<>>

\* position a ranks before position b: higher score, or the same score and
\* earlier in the program map
RanksBefore(sc, a, b) == sc[a] > sc[b] \/ (sc[a] = sc[b] /\ a < b)

\* C5: the returned list is the first 8 of the positive-scoring programs
\* ordered by score descending, equal scores in the insertion order of the
\* program map: at most 8 entries, no slug twice, no omitted program
\* outscoring a returned one.
C5_TopEightStable ==
    RankCall =>
        \E sc \in {StatedScores} :
        LET positive == {k \in DOMAIN programs : sc[k] > 0}
            n == Cardinality(positive)
        IN  /\ Len(ret) = (IF n < 8 THEN n ELSE 8)
            /\ \A i \in DOMAIN ret : \E k \in positive : programs[k].slug = ret[i]
            /\ \E at \in {[i \in DOMAIN ret |-> PositionOfSlug(ret[i])]} :
                   /\ \A i, j \in DOMAIN ret : i < j => RanksBefore(sc, at[i], at[j])
                   /\ \A p \in positive \ ToSet(at) :
                         \A i \in DOMAIN ret : RanksBefore(sc, at[i], p)

C5_Witness ==
    /\ RankCall
    /\ LET sc == StatedScores
       IN  /\ Cardinality({k \in DOMAIN programs : sc[k] > 0}) > 8
           /\ \E k \in DOMAIN programs : sc[k] > 0 /\ programs[k].slug \notin ToSet(ret)
    /\ Len(ret) = 8
    /\ \E i, j \in DOMAIN locals.scored :
          i < j /\ locals.scored[i].score = locals.scored[j].score
    /\ \E i, j \in DOMAIN locals.scored :
          i < j /\ locals.scored[i].score < locals.scored[j].score

ScoreIn(scored, slug) ==
    IF \E i \in DOMAIN scored : scored[i].slug = slug
    THEN scored[CHOOSE i \in DOMAIN scored : scored[i].slug = slug].score
    ELSE 0

\* C6: the score of a program is 2 times the number of its keywords that are
\* a whole word of the message or a substring of the lowercased message, plus
\* the number of its remaining keywords in the word set of the last 4 user
\* turns of the history; assistant turns and older user turns never change
\* the ranking.
C6_ScoreFormula ==
    RankCall =>
        /\ \E sc \in {StatedScores} :
               \A j \in DOMAIN program_keywords :
                   ScoreIn(locals.scored, program_keywords[j].slug)
                       = sc[PositionOfSlug(program_keywords[j].slug)]
        /\ ret = _find_relevant_programs(program_keywords, args.message,
                                         RecentUserTurns(args.conversation_history))

C6_Witness ==
    /\ RankCall
    /\ Cardinality({i \in DOMAIN args.conversation_history :
                       args.conversation_history[i].role = "user"}) > 4
    /\ \E i \in DOMAIN args.conversation_history :
          args.conversation_history[i].role = "assistant"
    /\ ~(AllTurnWords(args.conversation_history)
            \subseteq RecentUserWords(args.conversation_history))
    /\ \E i \in DOMAIN locals.scored : locals.scored[i].score = 1
    /\ \E i \in DOMAIN locals.scored : locals.scored[i].score >= 2
    /\ ret # _find_relevant_programs(program_keywords, args.message, <<>>)

(***************************************************************************)
(* The server: /chat requests handled by worker threads                    *)
(*                                                                         *)
(* A handler is followed step by step, since the threads of the server run *)
(* it concurrently on the one Chatbot: validation, the prompt (the only    *)
(* step that reads the catalog), the request to the backend, its outcome,  *)
(* the response.                                                           *)
(***************************************************************************)
ChatTexts == {<<>>, <<" ", NBSP, "\n">>, <<" ","m","a","t","h","s"," ">>, <<"S","t","a","t","-","2","4","4">>}

ChatHistory == Conversation(<<<<"E","c","o","n"," ","m","a","t","h","s">>>>, <<"S","u","r","e",".">>)

NoTranscript == [completed |-> <<>>, in_progress |-> <<>>]

ChatTranscript ==
    [completed |-> <<<<"M","A","T","H"," ","2","0","2","5","0">>>>, in_progress |-> <<<<"M","A","T","H"," ","2","0","2","5","0">>, <<"M","A","T","H"," ","1","5","3","0","0">>>>]

\* the JSON bodies posted to /chat
ChatBodies ==
    {Body({}, <<>>, <<>>, NoTranscript), Body({"history"}, <<>>, ChatHistory, NoTranscript)}
        \cup {Body({"message"}, m, <<>>, NoTranscript) : m \in ChatTexts}
        \cup {Body({"message", "history", "completed_courses", "in_progress_courses"},
                   m, ChatHistory, ChatTranscript) : m \in ChatTexts}

\* response.choices[0].message.content of the backend
Replies == {<<"Take MATH 20250 next.">>}

\* str(e) of what create raises
BackendErrors == {<<"Rate limit reached">>}

\* a request arrives at worker w: chat() of app.py up to bot.chat
Receive(w) ==
    /\ threads[w].pc = "idle"
    /\ \E data \in ChatBodies :
           threads' = [threads EXCEPT ![w] = Validated(threads[w], data)]
    /\ UNCHANGED <<catalog, hash_seed, op, args, ret, locals>>

\* Chatbot.chat up to the messages list
BuildPrompt(w) ==
    /\ threads[w].pc = "chat"
    /\ threads' = [threads EXCEPT
                      ![w] = Prompted(threads[w], programs, courses, program_keywords,
                                      hash_seed)]
    /\ programs' = IF programs = <<>> THEN programs
                   ELSE ProgramsAfterContext(
                            programs,
                            _find_relevant_programs(program_keywords, threads[w].message,
                                                    threads[w].data.history))
    /\ UNCHANGED <<courses, program_keywords, hash_seed, op, args, ret, locals>>

\* self.client.chat.completions.create is called
SendRequest(w) ==
    /\ threads[w].pc = "request"
    /\ threads' = [threads EXCEPT ![w] = Requested(threads[w])]
    /\ UNCHANGED <<catalog, hash_seed, op, args, ret, locals>>

\* the backend answers
BackendReplies(w) ==
    /\ threads[w].pc = "await"
    /\ \E content \in Replies :
           threads' = [threads EXCEPT ![w] = OnReply(threads[w], content)]
    /\ UNCHANGED <<catalog, hash_seed, op, args, ret, locals>>

\* the backend fails: network, authentication, rate limit
BackendFails(w) ==
    /\ threads[w].pc = "await"
    /\ \E e \in BackendErrors :
           threads' = [threads EXCEPT ![w] = OnBackendError(threads[w], e)]
    /\ UNCHANGED <<catalog, hash_seed, op, args, ret, locals>>

\* the response is sent; the worker is free again
Respond(w) ==
    /\ threads[w].pc = "done"
    /\ threads' = [threads EXCEPT ![w] = IdleThread]
    /\ UNCHANGED <<catalog, hash_seed, op, args, ret, locals>>

InitChat ==
    /\ \/ _load_data(SmallPrograms, SampleCourses)
       \/ _load_data(SmallPrograms, MissingFile)
       \/ _load_data(MissingFile, SampleCourses)
       \/ _load_data(MissingFile, MissingFile)
    /\ hash_seed = AnySeed(programs)
    /\ threads = NoThreads

NextChat ==
    \E w \in Workers :
        \/ Receive(w)
        \/ BuildPrompt(w)
        \/ SendRequest(w)
        \/ BackendReplies(w)
        \/ BackendFails(w)
        \/ Respond(w)

SpecChat == InitChat /\ [][NextChat]_vars

\* worker w has a request whose chat() call has been made
ChatRan(w) == threads[w].pc # "idle" /\ threads[w].chat_called

\* C15: a call of Chatbot.chat issues exactly one request to the backend,
\* whether it succeeds or fails: none before the prompt is built, one from then
\* on, never a second after a failure; a failure ends the request with a single
\* error response (status 500, the error text, no reply), a success with the
\* reply.
C15_OneRequestPerChat ==
    \A w \in Workers :
        ChatRan(w) =>
            /\ threads[w].failures <= 1
            /\ threads[w].pc \in {"chat", "request"} =>
                   threads[w].requests = <<>> /\ threads[w].failures = 0
            /\ threads[w].pc = "await" =>
                   Len(threads[w].requests) = 1 /\ threads[w].failures = 0
            /\ threads[w].pc = "done" =>
                   /\ Len(threads[w].requests) = 1
                   /\ IF threads[w].failures = 1
                      THEN /\ threads[w].response.status = 500
                           /\ DOMAIN threads[w].response.body = {"error"}
                           /\ threads[w].response.body.error \in BackendErrors
                      ELSE /\ threads[w].response.status = 200
                           /\ DOMAIN threads[w].response.body = {"reply"}
                           /\ threads[w].response.body.reply \in Replies

\* a request that ended with the error of a failed backend call
C15_Witness ==
    \E w \in Workers :
        /\ threads[w].pc = "done"
        /\ threads[w].failures = 1
        /\ threads[w].response.status = 500

\* the body has no message, or one that is empty or only whitespace
Blank(data) ==
    "message" \notin data.keys \/ \A i \in DOMAIN data.message : IsSpace(data.message[i])

\* C16: a /chat request whose message is missing, empty or only whitespace is
\* answered with a validation error (status 400) and nothing else happens for
\* it: Chatbot.chat is not called, no context is built, no request goes to the
\* backend.
C16_BlankMessageRejected ==
    \A w \in Workers :
        (threads[w].pc # "idle" /\ Blank(threads[w].data)) =>
            /\ threads[w].pc = "done"
            /\ threads[w].response.status = 400
            /\ DOMAIN threads[w].response.body = {"error"}
            /\ ~threads[w].chat_called
            /\ ~threads[w].context_built
            /\ threads[w].context = <<>>
            /\ threads[w].system_content = <<>>
            /\ threads[w].requests = <<>>

\* a message of whitespace only is rejected while another request is being served
C16_Witness ==
    \E w, v \in Workers :
        /\ threads[w].pc = "done"
        /\ "message" \in threads[w].data.keys
        /\ threads[w].data.message # <<>>
        /\ Blank(threads[w].data)
        /\ threads[w].response.status = 400
        /\ threads[v].pc = "await"

\* the context _build_context gives the request of worker w on the catalog as it is
ContextAlone(w) ==
    _build_context(programs, courses, program_keywords,
                   IterationOrder(hash_seed,
                                  MentionedCodes(programs,
                                                 _find_relevant_programs(
                                                     program_keywords, threads[w].message,
                                                     threads[w].data.history))),
                   threads[w].message, threads[w].data.completed_courses,
                   threads[w].data.in_progress_courses, threads[w].data.history)

\* no step of a handler changes the catalog or the body of a request being served
SharedStateKept ==
    /\ programs' = programs
    /\ courses' = courses
    /\ program_keywords' = program_keywords
    /\ \A w \in Workers :
           (threads[w].pc # "idle" /\ threads'[w].pc # "idle") =>
               threads'[w].data = threads[w].data

\* C17: after the load no step of a request changes the program map, the course
\* map or the keyword index, nor the history and the course lists the caller
\* supplied; so, however the requests of the workers interleave, the context of
\* each is the one _build_context gives for it alone.
C17_RequestsOnlyRead ==
    /\ [][SharedStateKept]_vars
    /\ [](\A w \in Workers : threads[w].context_built => threads[w].context = ContextAlone(w))

\* two requests with different contexts under way at once, the later one built
\* while the earlier waited for the backend
C17_Witness ==
    /\ threads[1].pc = "await"
    /\ threads[2].pc = "request"
    /\ threads[1].context_built
    /\ threads[2].context_built
    /\ threads[1].context # threads[2].context
    /\ threads[2].data.history # <<>>

\* worker w has a request whose system prompt is built
PromptBuilt(w) == threads[w].pc \in {"request", "await", "done"} /\ threads[w].chat_called

NoteIn(system_content) == \E i \in DOMAIN system_content : system_content[i] = NO_DATA_NOTE[1]

CatalogDataIn(system_content) ==
    \E i \in DOMAIN system_content : system_content[i] = "\n\n--- CATALOG DATA ---"

\* C18: when a catalog file was missing at startup, its map is empty, and chat
\* puts the no-data disclaimer into the system prompt and builds and injects no
\* catalog context.
C18_DisclaimerWhenAFileIsMissing ==
    \A w \in Workers :
        (PromptBuilt(w) /\ (programs = <<>> \/ courses = <<>>)) =>
            /\ NoteIn(threads[w].system_content)
            /\ ~threads[w].context_built
            /\ ~CatalogDataIn(threads[w].system_content)

\* a request served with programs.json loaded and courses.json missing: a
\* context is built and injected, and the prompt has no disclaimer
C18_Witness ==
    \E w \in Workers :
        /\ PromptBuilt(w)
        /\ programs # <<>>
        /\ courses = <<>>
        /\ threads[w].context_built
        /\ CatalogDataIn(threads[w].system_content)
        /\ ~NoteIn(threads[w].system_content)

\* what C18 keeps: the disclaimer is there exactly when the program map is
\* empty, the CATALOG DATA section exactly when it is not, never both, and no
\* context is built under the disclaimer
C18_DisclaimerIffNoPrograms ==
    \A w \in Workers :
        PromptBuilt(w) =>
            /\ NoteIn(threads[w].system_content) <=> (programs = <<>>)
            /\ CatalogDataIn(threads[w].system_content) <=> (programs # <<>>)
            /\ threads[w].context_built <=> (programs # <<>>)

(***************************************************************************)
(* _parse_transcript                                                       *)
(***************************************************************************)
RECURSIVE SplitLines(_)
\* content.split('\n')
SplitLines(content) ==
    IF \A i \in DOMAIN content : content[i] # "\n" THEN <<content>>
    ELSE LET i == CHOOSE k \in DOMAIN content :
                      content[k] = "\n" /\ \A j \in 1..(k - 1) : content[j] # "\n"
         IN  <<SubSeq(content, 1, i - 1)>>
                 \o SplitLines(SubSeq(content, i + 1, Len(content)))

\* structured_pattern.search(line): the code and the end of the first match
\* (found: there is one)
CodeSearch(line) ==
    LET starts == {i \in 0..(Len(line) - 1) : PrereqCodeMatches(line, i) # {}}
    IN  IF starts = {} THEN [found |-> FALSE, code |-> <<>>, end |-> 0]
        ELSE LET i == CHOOSE k \in starts : \A j \in starts : k <= j
                 nm == PrereqCodeMatch(line, i)
             IN  [found |-> TRUE,
                  code |-> SubSeq(line, i + 1, i + nm[1]) \o <<" ">>
                               \o SubSeq(line, i + nm[1] + nm[2] + 1, i + nm[1] + nm[2] + 5),
                  end |-> i + nm[1] + nm[2] + 5]

\* re.search(r'\bIn\s+Progress\b', s, re.IGNORECASE)
InProgressIn(s) ==
    \E i \in 0..(Len(s) - 1), n \in 1..Len(s) :
        /\ i + 2 + n + 8 <= Len(s)
        /\ WordBoundary(s, i)
        /\ lower(SubSeq(s, i + 1, i + 2)) = <<"i","n">>
        /\ \A k \in 1..n : IsSpace(s[i + 2 + k])
        /\ lower(SubSeq(s, i + 2 + n + 1, i + 2 + n + 8)) = <<"p","r","o","g","r","e","s","s">>
        /\ WordBoundary(s, i + 2 + n + 8)

\* re.search(r'\bN/?A\b', s, re.IGNORECASE)
NotAvailableIn(s) ==
    \E i \in 0..(Len(s) - 1), slash \in {0, 1} :
        /\ i + 2 + slash <= Len(s)
        /\ WordBoundary(s, i)
        /\ lower(<<s[i + 1]>>) = <<"n">>
        /\ slash = 1 => s[i + 2] = "/"
        /\ lower(<<s[i + 2 + slash]>>) = <<"a">>
        /\ WordBoundary(s, i + 2 + slash)

\* re.search(r'\b[A-D][+-]?\b', s)
LetterGradeIn(s) ==
    \E i \in 0..(Len(s) - 1), sign \in {0, 1} :
        /\ i + 1 + sign <= Len(s)
        /\ WordBoundary(s, i)
        /\ s[i + 1] \in {"A", "B", "C", "D"}
        /\ sign = 1 => s[i + 2] \in {"+", "-"}
        /\ WordBoundary(s, i + 1 + sign)

\* re.search(r'\b[PS]\b', s) with letters {"P", "S"}, re.search(r'\bW\b', s) with {"W"}
LoneLetterIn(s, letters) ==
    \E i \in 0..(Len(s) - 1) :
        /\ WordBoundary(s, i)
        /\ s[i + 1] \in letters
        /\ WordBoundary(s, i + 1)

\* completed, in_progress and has_grade_info before the loop
NoCourses == [completed |-> {}, in_progress |-> {}, has_grade_info |-> FALSE]

\* one pass of the loop over the lines
ParseLine(st, line) ==
    LET code_match == CodeSearch(line)
        code == code_match.code
        line_after_code == From(line, code_match.end)
    IN  IF ~code_match.found THEN st
        ELSE IF InProgressIn(line_after_code) \/ NotAvailableIn(line_after_code)
        THEN [st EXCEPT !.in_progress = @ \cup {code}, !.has_grade_info = TRUE]
        ELSE IF LetterGradeIn(line_after_code) \/ LoneLetterIn(line_after_code, {"P", "S"})
        THEN [st EXCEPT !.completed = @ \cup {code}, !.has_grade_info = TRUE]
        ELSE IF LoneLetterIn(line_after_code, {"W"})
        THEN [st EXCEPT !.has_grade_info = TRUE]
        ELSE [st EXCEPT !.in_progress = @ \cup {code}]

RECURSIVE ParseLines(_, _)
\* the loop over lines, from the state st on
ParseLines(st, lines) ==
    IF lines = <<>> THEN st ELSE ParseLines(ParseLine(st, Head(lines)), Tail(lines))

\* the returned dict
_parse_transcript(content) ==
    LET st == ParseLines(NoCourses, SplitLines(content))
    IN  IF ~st.has_grade_info /\ (st.completed \cup st.in_progress) # {}
        THEN [completed |-> SortedSeq(st.completed \cup st.in_progress), in_progress |-> <<>>]
        ELSE IF st.completed = {} /\ st.in_progress = {}
        THEN [completed |-> SortedSeq(PrereqCodes(content)), in_progress |-> <<>>]
        ELSE [completed |-> SortedSeq(st.completed), in_progress |-> SortedSeq(st.in_progress)]

\* the most lines of a transcript
MaxTranscriptLines == 2

\* lines of a transcript, with the code and the grade each is written to carry
\* (code <<>>: the line names no course; grade "none": a course without a grade)
TranscriptLines ==
    {[text |-> <<"M","A","T","H"," ","1","5","3","0","0"," ","C","a","l","c","u","l","u","s"," ","I","I","I"," ","W">>, code |-> <<"M","A","T","H"," ","1","5","3","0","0">>, grade |-> "W"],
     [text |-> <<"N","E","H","C"," ","2","0","1","0","0"," ","1","0","0"," ","W">>, code |-> <<"N","E","H","C"," ","2","0","1","0","0">>, grade |-> "W"],
     [text |-> <<"M","A","T","H"," ","1","5","3","0","0"," ","C","a","l","c","u","l","u","s"," ","I","I","I"," ","B","+">>, code |-> <<"M","A","T","H"," ","1","5","3","0","0">>, grade |-> "B+"],
     [text |-> <<"C","M","S","C"," ","1","4","3","0","0"," ","A","-">>, code |-> <<"C","M","S","C"," ","1","4","3","0","0">>, grade |-> "A-"],
     [text |-> <<"P","H","Y","S"," ","1","3","1","0","0"," ","P">>, code |-> <<"P","H","Y","S"," ","1","3","1","0","0">>, grade |-> "P"],
     [text |-> <<"S","T","A","T"," ","2","4","4","0","0"," ","I","n"," "," ","p","r","o","g","r","e","s","s">>, code |-> <<"S","T","A","T"," ","2","4","4","0","0">>, grade |-> "IP"],
     [text |-> <<"E","C","O","N"," ","2","0","0","0","0"," ","n","/","a">>, code |-> <<"E","C","O","N"," ","2","0","0","0","0">>, grade |-> "IP"],
     [text |-> <<"E","C","O","N"," ","2","0","0","0","0"," ","P","r","i","c","e"," ","t","h","e","o","r","y">>, code |-> <<"E","C","O","N"," ","2","0","0","0","0">>, grade |-> "none"],
     [text |-> <<"S","p","r","i","n","g"," ","2","0","2","4">>, code |-> <<>>, grade |-> "none"],
     [text |-> <<"W","i","t","h","d","r","a","w","a","l","s",":"," ","W">>, code |-> <<>>, grade |-> "none"]}

\* the text of a transcript with the given lines
TranscriptText(ls) == Join(<<"\n">>, [i \in DOMAIN ls |-> ls[i].text])

Transcripts == {TranscriptText(ls) : ls \in SeqsOf(TranscriptLines, 0, MaxTranscriptLines)}

ParseTranscript ==
    /\ op = "idle"
    /\ \E content \in Transcripts :
           /\ op' = "_parse_transcript"
           /\ args' = [NoArgs EXCEPT !.content = content]
           /\ ret' = _parse_transcript(content)
           /\ locals' = NoLocals
           /\ UNCHANGED <<catalog, hash_seed, threads>>

InitTranscript ==
    /\ _load_data(MissingFile, MissingFile)
    /\ hash_seed = AnySeed(programs)
    /\ threads = NoThreads

NextTranscript == ParseTranscript \/ Return

SpecTranscript == InitTranscript /\ [][NextTranscript]_vars

\* the lines of the transcript held, as written
LinesHeld ==
    LET texts == SplitLines(args.content)
    IN  [i \in DOMAIN texts |-> CHOOSE l \in TranscriptLines : l.text = texts[i]]

\* the codes whose every line in the transcript held carries the grade W
WithdrawnOnly ==
    {LinesHeld[i].code : i \in {j \in DOMAIN LinesHeld : LinesHeld[j].grade = "W"}}
        \ {LinesHeld[i].code : i \in {j \in DOMAIN LinesHeld : LinesHeld[j].grade # "W"}}

\* the transcript held has a course line that is not withdrawn
SomeCourseKept ==
    \E i \in DOMAIN LinesHeld : LinesHeld[i].code # <<>> /\ LinesHeld[i].grade # "W"

TranscriptCall == op = "_parse_transcript" /\ args.content # <<>>

\* C21: a course whose only line carries a W grade is not counted: whatever the
\* transcript, also one whose course lines are all withdrawn, its code is in
\* neither the completed list nor the in_progress list returned.
C21_WithdrawnNotCounted ==
    TranscriptCall =>
        \A code \in WithdrawnOnly :
            code \notin ToSet(ret.completed) /\ code \notin ToSet(ret.in_progress)

\* a transcript of two withdrawn courses and nothing else, both returned as completed
C21_Witness ==
    /\ TranscriptCall
    /\ Cardinality(WithdrawnOnly) = 2
    /\ ~SomeCourseKept
    /\ ToSet(ret.completed) = WithdrawnOnly
    /\ ret.in_progress = <<>>

\* what C21 keeps: beside a course line that is not withdrawn, a withdrawn course
\* is in neither list; alone, the withdrawn courses are all returned as completed
C21_WithdrawnNotCountedBesideOthers ==
    TranscriptCall =>
        IF SomeCourseKept
        THEN \A code \in WithdrawnOnly :
                 code \notin ToSet(ret.completed) /\ code \notin ToSet(ret.in_progress)
        ELSE ToSet(ret.completed) = WithdrawnOnly /\ ret.in_progress = <<>>

(***************************************************************************)
(* Statements about _check_prerequisites                                   *)
(***************************************************************************)
PrereqCall == op = "_check_prerequisites"

HasEntry == \E i \in DOMAIN courses : courses[i].code = args.code

EntryDetails == courses[CHOOSE i \in DOMAIN courses : courses[i].code = args.code].details

\* the tails of a field that begin with "Prerequisite"
PrerequisiteTails(field) ==
    {From(field, i) : i \in {k \in 0..Len(field) : MatchesAt(Prerequisite, field, k)}}

Longest(S) == CHOOSE x \in S : \A y \in S : Len(y) <= Len(x)

\* the prerequisite text of a course: its prerequisites field, or when that is
\* empty the tail from the first "Prerequisite" of terms_offered, or else of
\* instructors
StatedPrereqText(d) ==
    IF d.prerequisites # <<>> THEN d.prerequisites
    ELSE IF PrerequisiteTails(d.terms_offered) # {}
         THEN Longest(PrerequisiteTails(d.terms_offered))
    ELSE IF PrerequisiteTails(d.instructors) # {}
         THEN Longest(PrerequisiteTails(d.instructors))
    ELSE <<>>

\* the canonical codes of a text: 2 to 5 capitals, whitespace, 5 digits,
\* standing as a word of their own; written DEPT NNNNN
StatedCodes(s) ==
    {SubSeq(s, w[1] + 1, w[1] + w[2]) \o <<" ">>
         \o SubSeq(s, w[1] + w[2] + w[3] + 1, w[1] + w[2] + w[3] + 5) :
        w \in {v \in (0..Len(s)) \X (2..5) \X (1..Len(s)) :
                  /\ v[1] + v[2] + v[3] + 5 <= Len(s)
                  /\ (v[1] = 0 \/ ~IsWordChar(s[v[1]]))
                  /\ \A k \in 1..v[2] : s[v[1] + k] \in UpperSet
                  /\ \A k \in 1..v[3] : IsSpace(s[v[1] + v[2] + k])
                  /\ \A k \in 1..5 : IsDigit(s[v[1] + v[2] + v[3] + k])
                  /\ (v[1] + v[2] + v[3] + 5 = Len(s)
                        \/ ~IsWordChar(s[v[1] + v[2] + v[3] + 6]))}}

NotCompletedHeading == "Not completed: "

InProgressHeading == "In-progress (not yet satisfied): "

RECURSIVE SplitOn(_, _)
\* the runs of seq between the elements equal to sep
SplitOn(seq, sep) ==
    IF \A i \in DOMAIN seq : seq[i] # sep THEN <<seq>>
    ELSE LET i == CHOOSE k \in DOMAIN seq : seq[k] = sep /\ \A j \in 1..(k - 1) : seq[j] # sep
         IN  <<SubSeq(seq, 1, i - 1)>> \o SplitOn(SubSeq(seq, i + 1, Len(seq)), sep)

\* the codes listed under a heading of an explanation
NamesUnder(explanation, heading) ==
    IF \A i \in DOMAIN explanation : explanation[i] # heading THEN <<>>
    ELSE LET h == CHOOSE i \in DOMAIN explanation : explanation[i] = heading
             after == SubSeq(explanation, h + 1, Len(explanation))
         IN  SplitOn(SplitOn(after, "; ")[1], ", ")

TimesNamed(explanation, heading, c) ==
    LET names == NamesUnder(explanation, heading)
    IN  Cardinality({k \in DOMAIN names : names[k] = c})

\* C1: for a course whose prerequisite text contains a canonical code,
\* _check_prerequisites returns satisfied=true with an empty explanation exactly
\* when every extracted code is completed; otherwise satisfied=false and each
\* unmet code is named once: under "in-progress (not yet satisfied)" if it is
\* in progress, under "not completed" otherwise.
C1_PartitionOfPrerequisites ==
    (PrereqCall /\ HasEntry) =>
        \E codes \in {StatedCodes(StatedPrereqText(EntryDetails))} :
            codes # {} =>
                LET unmet == codes \ args.completed_courses
                IN  /\ ret.satisfied = (unmet = {})
                    /\ ret.satisfied => ret.explanation = <<>>
                    /\ \A c \in unmet :
                          IF c \in args.in_progress_courses
                          THEN /\ TimesNamed(ret.explanation, InProgressHeading, c) = 1
                               /\ TimesNamed(ret.explanation, NotCompletedHeading, c) = 0
                          ELSE /\ TimesNamed(ret.explanation, NotCompletedHeading, c) = 1
                               /\ TimesNamed(ret.explanation, InProgressHeading, c) = 0

C1_Witness ==
    /\ PrereqCall
    /\ HasEntry
    /\ ~ret.satisfied
    /\ \E c \in StatedCodes(StatedPrereqText(EntryDetails)) :
          /\ c \in args.in_progress_courses
          /\ c \notin args.completed_courses
          /\ TimesNamed(ret.explanation, InProgressHeading, c) = 1
    /\ \E c \in StatedCodes(StatedPrereqText(EntryDetails)) :
          /\ c \notin args.in_progress_courses
          /\ c \notin args.completed_courses
          /\ TimesNamed(ret.explanation, NotCompletedHeading, c) = 1

NoPrerequisiteKnown ==
    \/ ~HasEntry
    \/ /\ EntryDetails.prerequisites = <<>>
       /\ ~In(Prerequisite, EntryDetails.terms_offered)
       /\ ~In(Prerequisite, EntryDetails.instructors)

\* C2: _check_prerequisites returns (satisfied=true, explanation="") for every
\* completed and in-progress set when the code has no entry in the inventory,
\* or its entry has empty prerequisite text and neither terms_offered nor
\* instructors contains "Prerequisite".
C2_UnknownNeverBlocks ==
    (PrereqCall /\ NoPrerequisiteKnown) => ret = Result(TRUE, <<>>)

C2_Witness ==
    /\ PrereqCall
    /\ HasEntry
    /\ EntryDetails.prerequisites = <<>>
    /\ EntryDetails.terms_offered # <<>>
    /\ EntryDetails.instructors # <<>>
    /\ NoPrerequisiteKnown
    /\ args.in_progress_courses # {}
    /\ ret = Result(TRUE, <<>>)

\* the case of C3: an entry whose prerequisite text is non-empty and holds no code
TextWithoutCodes ==
    /\ PrereqCall
    /\ HasEntry
    /\ StatedPrereqText(EntryDetails) # <<>>
    /\ StatedCodes(StatedPrereqText(EntryDetails)) = {}

\* C3 as stated: when the prerequisite text is non-empty but contains no
\* canonical code, _check_prerequisites returns satisfied=true and an
\* explanation equal to the prerequisite text.
C3_ExplanationEqualsText ==
    TextWithoutCodes =>
        ret = Result(TRUE, StatedPrereqText(EntryDetails))

\* C3 as amended: in that case _check_prerequisites returns satisfied=true and
\* the explanation is the label "Prerequisites: " followed by the prerequisite
\* text verbatim.
C3_ExplanationIsLabelledText ==
    TextWithoutCodes =>
        ret = Result(TRUE, <<"Prerequisites: ">> \o StatedPrereqText(EntryDetails))

C3_Witness ==
    /\ TextWithoutCodes
    /\ EntryDetails.prerequisites = <<>>
    /\ ~In(Prerequisite, EntryDetails.terms_offered)
    /\ ret.satisfied
    /\ ret.explanation = <<"Prerequisites: ">> \o <<"P","r","e","r","e","q","u","i","s","i","t","e","(","s",")",":"," ","c","o","n","s","e","n","t">>

(***************************************************************************)
(* Statements about _resolve_course_reference                              *)
(***************************************************************************)
ResolveCall == op = "_resolve_course_reference"

InventoryCodes == {courses[i].code : i \in DOMAIN courses}

\* C7: each value in the mapping returned by _resolve_course_reference is a
\* key of the course inventory (several matched substrings may map to the
\* same code).
C7_ResolvedCodesExist ==
    ResolveCall => \A i \in DOMAIN ret : ret[i].official \in InventoryCodes

C7_Witness ==
    /\ ResolveCall
    /\ \E i, j \in DOMAIN ret :
          ret[i].informal # ret[j].informal /\ ret[i].official = ret[j].official
    /\ \A i \in DOMAIN ret : ret[i].official \in InventoryCodes

\* the letters of a code before its first space
DepartmentOf(code) ==
    SubSeq(code, 1, (CHOOSE k \in DOMAIN code :
                        code[k] = " " /\ \A j \in 1..(k - 1) : code[j] # " ") - 1)

InventoryDepartments == {DepartmentOf(c) : c \in InventoryCodes}

\* the digits right-padded with zeros to exactly 5 digits
ZeroPaddedRight(num) == [k \in 1..5 |-> IF k <= Len(num) THEN num[k] ELSE "0"]

\* the code a mention stands for: the department of the abbreviation table
\* (an unknown token uppercased), a space, the padded digits
StatedCode(m) == DEPT_ABBREVS(lower(m.dept)) \o <<" ">> \o ZeroPaddedRight(m.num)

\* a literal with 5 digits whose uppercased letters are a department of the inventory
StatedSkip(m) == Len(m.num) = 5 /\ upper(m.dept) \in InventoryDepartments

HasKey(d, key) == \E i \in DOMAIN d : d[i].informal = key

MapsTo(d, key, value) ==
    /\ \E i \in DOMAIN d : d[i].informal = key /\ d[i].official = value
    /\ Cardinality({i \in DOMAIN d : d[i].informal = key}) = 1

\* C8: _resolve_course_reference maps an informal mention (department token
\* followed by 2 to 5 digits) to the code formed by the abbreviation-table
\* department (unknown tokens uppercased) and the digits right-padded with
\* zeros to 5 digits, when that code is in the inventory ("cs143" with
\* "CMSC 14300" in the catalog gives {"cs143": "CMSC 14300"}); a literal that
\* already has 5 digits and whose uppercased letter group is a department of
\* some inventory course is skipped and gets no mapping.
C8_MentionsResolved ==
    ResolveCall =>
        /\ \A k \in DOMAIN locals.matches :
              LET m == locals.matches[k]
              IN  /\ Len(m.dept) \in 2..6 /\ Len(m.num) \in 2..5
                  /\ IF ~StatedSkip(m) /\ StatedCode(m) \in InventoryCodes
                     THEN MapsTo(ret, m.original, StatedCode(m))
                     ELSE ~HasKey(ret, m.original)
        /\ \A i \in DOMAIN ret :
              \E k \in DOMAIN locals.matches : locals.matches[k].original = ret[i].informal
        /\ (args.message = <<"c","s","1","4","3">> /\ <<"C","M","S","C"," ","1","4","3","0","0">> \in InventoryCodes)
              => ret = <<[informal |-> <<"c","s","1","4","3">>, official |-> <<"C","M","S","C"," ","1","4","3","0","0">>]>>
        /\ (args.message = <<" ","C","M","S","C"," ","1","4","3","0","0">> /\ <<"C","M","S","C"," ","1","4","3","0","0">> \in InventoryCodes)
              => (ret = <<>> /\ Len(locals.matches) = 1)

C8_Witness ==
    /\ ResolveCall
    /\ \E k \in DOMAIN locals.matches :
          StatedSkip(locals.matches[k]) /\ ~HasKey(ret, locals.matches[k].original)
    /\ \E i \in DOMAIN ret :
          ret[i].informal = <<"n","e","h","c"," ","2","0","1">> /\ ret[i].official = <<"N","E","H","C"," ","2","0","1","0","0">>

(***************************************************************************)
(* Statements about the fallback listing of _build_context                 *)
(***************************************************************************)
ContextCall == op = "_build_context"

\* the ranking of the call held came back empty
RankingEmpty == locals.relevant_slugs = <<>>

\* the names of all programs in ascending order: the k-th is the name with k - 1
\* names before it (an equal name of an earlier program counts as before)
NamesInOrder ==
    LET before == [i \in DOMAIN programs |->
                      Cardinality({j \in DOMAIN programs :
                                      \/ StrLess(programs[j].name, programs[i].name)
                                      \/ programs[j].name = programs[i].name /\ j < i})]
    IN  [k \in DOMAIN programs |->
            programs[CHOOSE i \in DOMAIN programs : before[i] = k - 1].name]

\* the listing as stated: heading, one "- name" line per program, prompt
StatedListing ==
    LET names == NamesInOrder
    IN  <<"\n\nAvailable programs in the catalog:\n">>
            \o Join(<<"\n">>, [k \in DOMAIN names |-> <<"- ">> \o names[k]])
            \o <<"\n\n(Ask about a specific program for detailed requirements.)">>

\* the headings of the steps after the early return, and of a program section
LaterHeadings ==
    {"\n\n## ", "\n### Requirements:\n", "\n\n### Cross-Program Overlap\n",
     "\n### Course Details:\n", "\n\n### Prerequisite Warnings:\n",
     "\n\n### Resolved Course References:\n", "\n\n### Course Name Search Results:\n"}

\* C9: when the ranking is empty and the catalog holds at least one program,
\* _build_context returns exactly the sorted list of all program names and the
\* prompt, and no later step contributes: no course details, no prerequisite
\* warnings, no resolved references, no name search results, whatever the
\* message resolves to.
C9_FallbackIsWholeContext ==
    (ContextCall /\ RankingEmpty /\ programs # <<>>) =>
        /\ ret = StatedListing
        /\ \A i \in DOMAIN ret : ret[i] \notin LaterHeadings

C9_Witness ==
    /\ ContextCall
    /\ RankingEmpty
    /\ Len(programs) >= 2
    /\ _resolve_course_reference(courses, args.message) # <<>>
    /\ SearchResults(courses, NameQueries(args.message), {}) # <<>>
    /\ ret = StatedListing

\* a keyword of some program is a word of one of the last four user turns
KeywordInRecentTurns(h) ==
    \E recent \in {RecentUserWords(h)} :
        \E j \in DOMAIN program_keywords : program_keywords[j].keywords \cap recent # {}

\* a keyword of some program is a word of a user turn older than the last four
KeywordInOlderTurn(h) ==
    \E i \in {n \in DOMAIN h : h[n].role = "user"} \ RecentUserPositions(h) :
        \E j \in DOMAIN program_keywords :
            program_keywords[j].keywords \cap ToSet(split(lower(h[i].content))) # {}

\* C10 as stated: against a non-empty catalog, a message in which no program
\* keyword occurs yields the fallback listing, whatever history accompanies it.
C10_MessageAloneDecides ==
    (ContextCall /\ programs # <<>> /\ NoKeywordInMessage(args.message)) =>
        ret = StatedListing

\* C10, amended: against a non-empty catalog, a message in which no program
\* keyword occurs yields the fallback listing (not an empty context, not
\* program sections) when no program keyword is a word of the last four user
\* turns of the history either; when one is, its program is ranked and the
\* context opens with a program section instead of the listing.
C10_MessageAndRecentTurnsDecide ==
    (ContextCall /\ programs # <<>> /\ NoKeywordInMessage(args.message)) =>
        IF KeywordInRecentTurns(args.conversation_history)
        THEN ret # <<>> /\ ret[1] = "\n\n## "
        ELSE ret = StatedListing /\ ret # <<>> /\ "\n\n## " \notin ToSet(ret)

C10_Witness ==
    /\ ContextCall
    /\ programs # <<>>
    /\ NoKeywordInMessage(args.message)
    /\ KeywordInOlderTurn(args.conversation_history)
    /\ ~KeywordInRecentTurns(args.conversation_history)
    /\ ret = StatedListing

(***************************************************************************)
(* Statements about the blocks of the context                              *)
(***************************************************************************)
PositionsOf(seq, x) == {i \in DOMAIN seq : seq[i] = x}

\* the headings that open a block of the context
BlockHeadings ==
    {"\n\n## ", "\n\n### Cross-Program Overlap\n", "\n### Course Details:\n",
     "\n\n### Prerequisite Warnings:\n", "\n\n### Resolved Course References:\n",
     "\n\n### Course Name Search Results:\n"}

\* what follows the first `heading` of seq, up to the next heading (<<>>: no such block)
BlockBody(seq, heading) ==
    IF PositionsOf(seq, heading) = {} THEN <<>>
    ELSE LET h == CHOOSE i \in PositionsOf(seq, heading) :
                      \A j \in PositionsOf(seq, heading) : i <= j
             nexts == {i \in DOMAIN seq : i > h /\ seq[i] \in BlockHeadings}
             e == IF nexts = {} THEN Len(seq) + 1
                  ELSE CHOOSE i \in nexts : \A j \in nexts : i <= j
         IN  SubSeq(seq, h + 1, e - 1)

\* the lines of a text whose line ends are "\n" elements
LinesOf(text) == SplitOn(text, "\n")

\* the part of a line before / after its first element x (the line has one)
Before(line, x) ==
    SubSeq(line, 1, (CHOOSE i \in PositionsOf(line, x) :
                        \A j \in PositionsOf(line, x) : i <= j) - 1)

After(line, x) ==
    SubSeq(line, (CHOOSE i \in PositionsOf(line, x) :
                     \A j \in PositionsOf(line, x) : i <= j) + 1, Len(line))

\* the entries of the Cross-Program Overlap block of a context:
\* [code, names, markers] of each "- **code**: name -> counts for: names" line
OverlapEntries(context) ==
    LET body == BlockBody(context, "\n\n### Cross-Program Overlap\n")
        lines == LinesOf(SelectSeq(body, LAMBDA x :
                     x # "These courses count toward multiple programs:\n"))
        entries == SelectSeq(lines, LAMBDA l :
                       /\ l # <<>>
                       /\ l[1] = "- **"
                       /\ PositionsOf(l, "**: ") # {}
                       /\ PositionsOf(l, " → counts for: ") # {})
    IN  {[code |-> Before(Tail(entries[k]), "**: "),
          names |-> ToSet(SplitOn(SelectSeq(After(entries[k], " → counts for: "),
                                            LAMBDA x : x \notin {" [COMPLETED]",
                                                                 " [IN PROGRESS]"}),
                                  ", ")),
          markers |-> SelectSeq(entries[k], LAMBDA x : x \in {" [COMPLETED]",
                                                              " [IN PROGRESS]"})] :
            k \in DOMAIN entries}

\* the program ranked at position a of the call held
RankedProgram(a) ==
    programs[CHOOSE i \in DOMAIN programs : programs[i].slug = locals.relevant_slugs[a]]

\* prog lists the course code `code` in a requirement section, after normalization
Lists(prog, code) ==
    \E i \in DOMAIN prog.requirements :
        \E j \in DOMAIN prog.requirements[i].courses :
            _normalize_code(prog.requirements[i].courses[j].code) = code

\* the course codes that the programs ranked at a and b both list
SharedCodes(a, b) ==
    {code \in UNION {{_normalize_code(RankedProgram(a).requirements[i].courses[j].code) :
                         j \in DOMAIN RankedProgram(a).requirements[i].courses} :
                     i \in DOMAIN RankedProgram(a).requirements} :
        code # <<>> /\ Lists(RankedProgram(b), code)}

\* C11 as stated: whenever two ranked programs both list the same course code,
\* the context has a Cross-Program Overlap block with an entry for that code
\* naming both programs.
C11_SharedCodeHasEntry ==
    ContextCall =>
        \E entries \in {OverlapEntries(ret)} :
            \A a, b \in DOMAIN locals.relevant_slugs :
                a < b =>
                    \A code \in SharedCodes(a, b) :
                        \E e \in entries :
                            /\ e.code = code
                            /\ {RankedProgram(a).name, RankedProgram(b).name}
                                   \subseteq e.names

\* C11, amended: whenever two ranked programs of different names both list the
\* same course code, the context has a Cross-Program Overlap block with an entry
\* for that code naming both programs; a code listed only by ranked programs of
\* one and the same name has no entry.
C11_SharedCodeOfTwoNamesHasEntry ==
    ContextCall =>
        \E entries \in {OverlapEntries(ret)} :
            /\ \A a, b \in DOMAIN locals.relevant_slugs :
                   (a < b /\ RankedProgram(a).name # RankedProgram(b).name) =>
                       \A code \in SharedCodes(a, b) :
                           \E e \in entries :
                               /\ e.code = code
                               /\ {RankedProgram(a).name, RankedProgram(b).name}
                                      \subseteq e.names
            /\ \A e \in entries : Cardinality(e.names) >= 2

C11_Witness ==
    /\ ContextCall
    /\ \E a, b \in DOMAIN locals.relevant_slugs :
          /\ a < b
          /\ RankedProgram(a).name # RankedProgram(b).name
          /\ \E code \in SharedCodes(a, b) :
                \E e \in OverlapEntries(ret) :
                    e.code = code
                        /\ e.names = {RankedProgram(a).name, RankedProgram(b).name}

\* the first position of heading x in the context (0: the block is absent)
HeadingAt(context, x) ==
    IF PositionsOf(context, x) = {} THEN 0
    ELSE CHOOSE i \in PositionsOf(context, x) : \A j \in PositionsOf(context, x) : i <= j

\* the last position of heading x in the context (0: the block is absent)
LastHeadingAt(context, x) ==
    IF PositionsOf(context, x) = {} THEN 0
    ELSE CHOOSE i \in PositionsOf(context, x) : \A j \in PositionsOf(context, x) : i >= j

\* blocks a and b, when both are there, come in this order
InOrder(context, a, b) ==
    (HeadingAt(context, a) # 0 /\ HeadingAt(context, b) # 0)
        => LastHeadingAt(context, a) < HeadingAt(context, b)

\* the headings of the blocks in the order of the steps 2 to 7 of the context builder
StatedBlockOrder ==
    <<"\n\n## ", "\n\n### Cross-Program Overlap\n", "\n\n### Prerequisite Warnings:\n",
      "\n### Course Details:\n", "\n\n### Resolved Course References:\n",
      "\n\n### Course Name Search Results:\n">>

\* the collection each block is made from is not empty, for the call held
CollectionNotEmpty(heading) ==
    LET tracked == MentionedCodes(programs, locals.relevant_slugs)
    IN  CASE heading = "\n\n## " -> locals.relevant_slugs # <<>>
          [] heading = "\n\n### Cross-Program Overlap\n" ->
                 Overlaps(programs, locals.relevant_slugs) # {}
          [] heading = "\n\n### Prerequisite Warnings:\n" ->
                 PrereqWarnings(courses, locals.order, ToSet(args.completed_courses),
                                ToSet(args.in_progress_courses)) # <<>>
          [] heading = "\n### Course Details:\n" ->
                 CourseDetails(courses, locals.order) # <<>>
          [] heading = "\n\n### Resolved Course References:\n" ->
                 _resolve_course_reference(courses, args.message) # <<>>
          [] heading = "\n\n### Course Name Search Results:\n" ->
                 SearchResults(courses, NameQueries(args.message), tracked) # <<>>

\* C12: the blocks of the context come in the order of the steps: program
\* sections, Cross-Program Overlap, Prerequisite Warnings, Course Details,
\* Resolved Course References, Course Name Search Results; and a block is there
\* only if the collection it is made from is not empty.
C12_BlocksInStatedOrder ==
    ContextCall =>
        /\ \A i, j \in DOMAIN StatedBlockOrder :
               i < j => InOrder(ret, StatedBlockOrder[i], StatedBlockOrder[j])
        /\ \A i \in DOMAIN StatedBlockOrder :
               HeadingAt(ret, StatedBlockOrder[i]) # 0
                   => CollectionNotEmpty(StatedBlockOrder[i])

\* the part of C12 that the code keeps: every pair of blocks but (Prerequisite
\* Warnings, Course Details) is in the stated order, Course Details comes
\* before Prerequisite Warnings, and a block is there only if its collection is
\* not empty
C12_OrderButWarningsAfterDetails ==
    ContextCall =>
        /\ \A i, j \in DOMAIN StatedBlockOrder :
               (i < j /\ <<i, j>> # <<3, 4>>)
                   => InOrder(ret, StatedBlockOrder[i], StatedBlockOrder[j])
        /\ InOrder(ret, "\n### Course Details:\n", "\n\n### Prerequisite Warnings:\n")
        /\ \A i \in DOMAIN StatedBlockOrder :
               HeadingAt(ret, StatedBlockOrder[i]) # 0
                   => CollectionNotEmpty(StatedBlockOrder[i])

C12_Witness ==
    /\ ContextCall
    /\ HeadingAt(ret, "\n\n### Prerequisite Warnings:\n") # 0
    /\ HeadingAt(ret, "\n### Course Details:\n") # 0
    /\ HeadingAt(ret, "\n\n### Cross-Program Overlap\n") # 0
    /\ HeadingAt(ret, "\n\n### Resolved Course References:\n") # 0
    /\ HeadingAt(ret, "\n\n### Course Name Search Results:\n") # 0
    /\ HeadingAt(ret, "\n### Course Details:\n")
           < HeadingAt(ret, "\n\n### Prerequisite Warnings:\n")

\* the context the call held would get in a process started with `seed`
ContextUnder(seed) ==
    _build_context(programs, courses, program_keywords,
                   IterationOrder(seed, MentionedCodes(programs, locals.relevant_slugs)),
                   args.message, args.completed_courses, args.in_progress_courses,
                   args.conversation_history)

\* C13: _build_context is a function of the message, the two course lists, the
\* history and the catalog alone: whatever process runs the call, the string
\* is the same, the order of the course details and of the prerequisite
\* warnings included.
C13_SameContextInEveryProcess ==
    ContextCall => \A seed \in HashSeeds(programs) : ContextUnder(seed) = ret

\* a call whose course details come in an order another process would not give
C13_Witness ==
    /\ ContextCall
    /\ Len(CourseDetails(courses, locals.order)) >= 2
    /\ \E seed \in HashSeeds(programs) :
          /\ ContextUnder(seed) # ret
          /\ Len(ContextUnder(seed)) = Len(ret)

\* what C13 keeps: the calls of one process agree, since the context depends on
\* the process only through its hash seed
C13_SameContextInOneProcess ==
    ContextCall => ContextUnder(hash_seed) = ret

\* the lines of the Prerequisite Warnings block of a context
WarningLines(context) ==
    LET lines == LinesOf(BlockBody(context, "\n\n### Prerequisite Warnings:\n"))
    IN  SelectSeq(lines, LAMBDA l : l # <<>>)

\* the code a warning line is about
WarnedCode(line) == Before(SubSeq(line, 3, Len(line)), ": ")

\* the tracked codes of the call held that the transcript does not name
OpenCodes ==
    {code \in ToSet(locals.order) :
        code \notin ToSet(args.completed_courses) \cup ToSet(args.in_progress_courses)}

\* the prerequisite check of a tracked code against the transcript of the call held
CheckOf(code) ==
    _check_prerequisites(courses, code, ToSet(args.completed_courses),
                         ToSet(args.in_progress_courses))

\* C14: the Prerequisite Warnings block holds one warning for each tracked code
\* that is neither completed nor in progress and whose prerequisite check is not
\* satisfied, and nothing else: no warning for a completed or in-progress code,
\* and no informational explanation of a satisfied check.
C14_WarningsForOpenUnsatisfiedCodes ==
    ContextCall =>
        \E lines \in {WarningLines(ret)} :
            \E due \in {{code \in OpenCodes : ~CheckOf(code).satisfied}} :
                /\ \A i \in DOMAIN lines :
                      /\ Len(lines[i]) >= 4
                      /\ lines[i][1] = "- "
                      /\ lines[i][2] = "Prereq issue for "
                      /\ WarnedCode(lines[i]) \in due
                      /\ SubSeq(lines[i], 2, Len(lines[i]))
                             = CheckOf(WarnedCode(lines[i])).explanation
                /\ \A code \in due :
                      Cardinality({i \in DOMAIN lines : WarnedCode(lines[i]) = code}) = 1

\* a call with a warning, a tracked code in the transcript whose check fails, and
\* an open tracked code whose check gives an informational explanation
C14_Witness ==
    /\ ContextCall
    /\ WarningLines(ret) # <<>>
    /\ \E code \in ToSet(locals.order) \ OpenCodes : ~CheckOf(code).satisfied
    /\ \E code \in OpenCodes :
          CheckOf(code).satisfied /\ CheckOf(code).explanation # <<>>

StatusMarkers == {" [COMPLETED]", " [IN PROGRESS]"}

\* the program sections of a context: what comes before the first later block
ProgramRegion(context) ==
    LET later == {i \in DOMAIN context : context[i] \in BlockHeadings \ {"\n\n## "}}
    IN  IF later = {} THEN context
        ELSE SubSeq(context, 1, (CHOOSE i \in later : \A j \in later : i <= j) - 1)

\* the course lines of a text of program sections, as [code, rest]: the code is
\* what stands before ": " after the prefix, rest what follows it
CourseLinesOf(region) ==
    LET breaks == {"\n", "\n\n## ", "\n### Requirements:\n", "\n**", "**\n"}
        text == [i \in DOMAIN region |-> IF region[i] \in breaks THEN "\n" ELSE region[i]]
        lines == SelectSeq(LinesOf(text), LAMBDA l : PositionsOf(l, ": ") # {})
    IN  [k \in DOMAIN lines |->
            [code |-> SelectSeq(Before(lines[k], ": "),
                                LAMBDA x : x \notin {"  OR ", "  - "}),
             rest |-> After(lines[k], ": ")]]

CourseLines(context) == CourseLinesOf(ProgramRegion(context))

\* the marker the claim gives a code under the transcript of the call held
StatedMarker(code) ==
    IF code \in ToSet(args.completed_courses) THEN <<" [COMPLETED]">>
    ELSE IF code \in ToSet(args.in_progress_courses) THEN <<" [IN PROGRESS]">>
    ELSE <<>>

\* the course entries the ranked programs of the call held list: <<a, s, c>> is
\* entry c of section s of the program ranked a
ListedCourses ==
    UNION {UNION {{<<a, s, c>> : c \in DOMAIN RankedProgram(a).requirements[s].courses} :
                     s \in DOMAIN RankedProgram(a).requirements} :
              a \in DOMAIN locals.relevant_slugs}

\* C20: every course line and every overlap entry of the context carries at most
\* one status marker, the same wherever the code occurs: [COMPLETED] when the
\* code is completed (also when it is in progress as well), [IN PROGRESS] when
\* it is only in progress, none otherwise; the marker ends the line.
C20_OneMarkerByTranscript ==
    ContextCall =>
        \E lines \in {CourseLines(ret)} :
            /\ \A k \in DOMAIN lines :
                  /\ SelectSeq(lines[k].rest, LAMBDA x : x \in StatusMarkers)
                         = StatedMarker(lines[k].code)
                  /\ \A i \in 1..(Len(lines[k].rest) - 1) :
                         lines[k].rest[i] \notin StatusMarkers
            /\ \A e \in OverlapEntries(ret) : e.markers = StatedMarker(e.code)
            /\ Len(lines) = Cardinality(ListedCourses)

\* a code both completed and in progress, on a course line and in an overlap entry
C20_Witness ==
    /\ ContextCall
    /\ \E lines \in {CourseLines(ret)} :
          \E k \in DOMAIN lines :
              /\ lines[k].code \in ToSet(args.completed_courses)
                                      \cap ToSet(args.in_progress_courses)
              /\ \E e \in OverlapEntries(ret) : e.code = lines[k].code

(***************************************************************************)
(* _normalize_code on its own                                              *)
(***************************************************************************)
\* the longest raw code given to _normalize_code
MaxCodeLen == 3

\* the characters of a raw code: whitespace of three kinds, a letter, a digit
CodeChars == {" ", NBSP, "\n", "M", "1"}

RawCodes == UNION {[1..n -> CodeChars] : n \in 0..MaxCodeLen}

NormalizeCode ==
    /\ op = "idle"
    /\ \E code \in RawCodes :
           /\ op' = "_normalize_code"
           /\ args' = [NoArgs EXCEPT !.code = code]
           /\ ret' = _normalize_code(code)
           /\ locals' = NoLocals
           /\ UNCHANGED <<catalog, hash_seed, threads>>

InitNormalize ==
    /\ _load_data(MissingFile, MissingFile)
    /\ hash_seed = AnySeed(programs)
    /\ threads = NoThreads

NextNormalize == NormalizeCode \/ Return

SpecNormalize == InitNormalize /\ [][NextNormalize]_vars

\* C19: _normalize_code is idempotent: normalizing a normalized code gives the
\* same string back.
C19_NormalizeIdempotent ==
    op = "_normalize_code" => _normalize_code(ret) = ret

\* a raw code with a non-breaking space inside and whitespace at an end, which
\* normalization changes
C19_Witness ==
    /\ op = "_normalize_code"
    /\ Len(args.code) = MaxCodeLen
    /\ IsSpace(args.code[1])
    /\ args.code[2] = NBSP
    /\ ret # <<>>
    /\ ret # args.code
====
